---- MODULE Spec2Model ----
(***************************************************************************)
(* Model of the configuration, validation and dispatch layer of afft:      *)
(*   TransformConfig  (include/afft/detail/TransformConfig.hpp)            *)
(*   DimensionsConfig (include/afft/detail/DimensionsConfig.hpp)           *)
(*   Plan             (include/afft/Plan.hpp)                              *)
(* Fixed-size arrays (MaxDimArray) are functions over 0..maxDimCount-1;    *)
(* spans and views passed by the caller are sequences (1-based), so the    *)
(* C++ element list[i] is list[i+1] here.                                  *)
(***************************************************************************)
EXTENDS Integers, Sequences, FiniteSets, TLC

VARIABLES
  params,     \* the parameter set handed to the library by the caller
  pc,         \* position of the descriptor construction
  axesRes,    \* outcome of checkAxes(params.axes, rank of params.shape)
  tc,         \* outcome of TransformConfig::make
  dc,         \* outcome of DimensionsConfig::DimensionsConfig, later corrected
  norm,       \* outcome of TransformConfig::getNormFactor
  plan,       \* the descriptor (mDesc) of the plan that is executed
  call,       \* arguments of the last execute / executeUnsafe call
  result,     \* outcome of the last execute / executeUnsafe call
  invoked,    \* backend entry points invoked by the last call, in order
  passed,     \* execution parameters handed to them, in the same order
  targetParams,         \* the target parameters handed to TargetConfig::make
  hardwareConcurrency,  \* std::thread::hardware_concurrency() of the machine
  targetCfg,            \* outcome of TargetConfig::make
  returned,   \* the accessor of the plan called last and what it returned
  callCount,  \* number of calls made on the plan or on the library so far
  build,      \* the build configuration: MPI distribution and GPU enabled
  isInitialized,     \* afft::detail::isInitialized
  mpiIsInitialized,  \* what MPI_Initialized reports
  backendLog,        \* the init / finalize calls made on the backends, in order
  initResult,        \* outcome of the last init / finalize call
  deinitializer,     \* the static Deinitializer of init has been constructed
  exited,            \* the process has ended (static destructors have run)
  tpc,               \* position of each thread inside init
  told               \* each thread's value of std::exchange(isInitialized, true)

vars ==
  <<params, pc, axesRes, tc, dc, norm, plan, call, result, invoked, passed,
    targetParams, hardwareConcurrency, targetCfg, returned, callCount,
    build, isInitialized, mpiIsInitialized, backendLog, initResult,
    deinitializer, exited, tpc, told>>

descVars == <<params, pc, axesRes, tc, dc, norm>>
targetVars == <<targetParams, hardwareConcurrency, targetCfg>>
libVars ==
  <<build, isInitialized, mpiIsInitialized, backendLog, initResult,
    deinitializer, exited, tpc, told>>
execVars ==
  <<plan, call, result, invoked, passed, targetVars, returned, callCount, libVars>>

(***************************************************************************)
(* Program constants and bounds                                            *)
(***************************************************************************)
maxDimCount == 4

MaxShapeRank == 5
MaxExtent == 6
MaxTypesLen == 2
MaxTargetCount == 2
MaxThreads == 5

DimIdx == 0 .. (maxDimCount - 1)

SeqsUpTo(S, n) == UNION {[1 .. k -> S] : k \in 0 .. n}

\* a value-initialised MaxDimArray<std::size_t>
ZeroArray == [i \in DimIdx |-> 0]

(***************************************************************************)
(* Outcomes: a call returns or throws an exception of some type            *)
(***************************************************************************)
Ok == [status |-> "ok", what |-> ""]

Throw(type, what) == [status |-> type, what |-> what]

NotCalled == [status |-> "not_called", what |-> ""]

NoConfig == [type |-> "none"]

(***************************************************************************)
(* Enumerations. "invalid" stands for a value outside the enumeration.     *)
(***************************************************************************)
Directions == {"forward", "inverse"}

Formats == {"real", "complexInterleaved", "complexPlanar",
            "hermitianComplexInterleaved", "hermitianComplexPlanar"}

DttTypes == {"dct1", "dct2", "dct3", "dct4", "dst1", "dst2", "dst3", "dst4"}

Normalizations == {"none", "orthogonal", "unitary"}

Placements == {"inPlace", "outOfPlace"}

SupportedPrecisions == {"f32", "f64"}

hasPrecision(prec) == prec \in SupportedPrecisions

(***************************************************************************)
(* TransformConfig                                                         *)
(***************************************************************************)
checkDirection(dir) ==
  IF dir \in {"forward", "inverse"}
  THEN Ok
  ELSE Throw("invalid_argument", "Invalid transform direction")

checkPrecision(prec) ==
  IF ~hasPrecision(prec.execution) \/ ~hasPrecision(prec.source)
       \/ ~hasPrecision(prec.destination)
  THEN Throw("invalid_argument", "Invalid transform precision")
  ELSE Ok

\* the loop over the axes with the std::bitset<maxDimCount> of seen axes;
\* std::bitset::test(pos) throws std::out_of_range when pos >= maxDimCount
RECURSIVE checkAxesLoop(_, _, _, _)
checkAxesLoop(axes, shapeRank, i, seenAxes) ==
  IF i > Len(axes)
  THEN Ok
  ELSE LET axis == axes[i] IN
       IF axis >= shapeRank
       THEN Throw("invalid_argument", "Transform axis out of bounds")
       ELSE IF axis >= maxDimCount
       THEN Throw("out_of_range", "bitset::test")
       ELSE IF axis \in seenAxes
       THEN Throw("invalid_argument", "Transform axes must be unique")
       ELSE checkAxesLoop(axes, shapeRank, i + 1, seenAxes \cup {axis})

checkAxes(axes, shapeRank) ==
  IF Len(axes) = 0
  THEN Throw("invalid_argument", "Transform axes cannot be empty")
  ELSE IF Len(axes) > shapeRank
  THEN Throw("invalid_argument", "Transform axes rank exceeds shape rank")
  ELSE IF Len(axes) > maxDimCount
  THEN Throw("invalid_argument", "Transform axes rank exceeds maximum rank")
  ELSE checkAxesLoop(axes, shapeRank, 1, {})

\* the private constructor: mRank = axes.size(), axes copied to the front of
\* the value-initialised mAxes
NewTransformConfig(dir, prec, axes, variant) ==
  [type       |-> "TransformConfig",
   mDirection |-> dir,
   mPrec      |-> prec,
   mRank      |-> Len(axes),
   mAxes      |-> [i \in DimIdx |-> IF i < Len(axes) THEN axes[i + 1] ELSE 0],
   mVariant   |-> variant]

Failed(exc) == [status |-> exc.status, what |-> exc.what, config |-> NoConfig]

Made(cfg) == [status |-> "ok", what |-> "", config |-> cfg]

\* mutant of dftFormatsOk: the inner switch over dstFormat is missing
dftFormatsOk_anyDestination(srcFormat, dstFormat) ==
  srcFormat \in {"real", "complexInterleaved", "complexPlanar"}

\* the nested switch over srcFormat and dstFormat that sets formatsOk
dftFormatsOk(srcFormat, dstFormat) ==
  CASE srcFormat = "real" ->
         dstFormat \in {"complexInterleaved", "complexPlanar"}
    [] srcFormat \in {"complexInterleaved", "complexPlanar"} -> TRUE
    [] OTHER -> FALSE

DftConfig(srcFormat, dstFormat) ==
  [type |-> "dft", srcFormat |-> srcFormat, dstFormat |-> dstFormat]

makeDft(p) ==
  LET d == checkDirection(p.direction)
      q == checkPrecision(p.precision)
      a == checkAxes(p.axes, Len(p.shape))
  IN  IF d.status # "ok" THEN Failed(d)
      ELSE IF q.status # "ok" THEN Failed(q)
      ELSE IF a.status # "ok" THEN Failed(a)
      ELSE IF ~dftFormatsOk(p.srcFormat, p.dstFormat)
      THEN Failed(Throw("invalid_argument",
                        "Invalid dft transform formats combination"))
      ELSE Made(NewTransformConfig(p.direction, p.precision, p.axes,
                                   DftConfig(p.srcFormat, p.dstFormat)))

checkDttType(type) == type \in DttTypes

\* a value-initialised MaxDimArray<dtt::Type>: every slot is the enumerator 0
DttZeroArray == [i \in DimIdx |-> "dct1"]

\* mutant of dttAxisTypes: a single type is copied, not broadcast
dttAxisTypes_singleNotBroadcast(types, nAxes) ==
  IF (Len(types) = 1 \/ Len(types) = nAxes)
       /\ \A i \in 1 .. Len(types) : checkDttType(types[i])
  THEN [status |-> "ok", what |-> "",
        axisTypes |-> [i \in DimIdx |->
                         IF i < Len(types) THEN types[i + 1] ELSE "dct1"]]
  ELSE [status |-> "invalid_argument", what |-> "Invalid dtt transform types",
        axisTypes |-> DttZeroArray]

\* the if / else-if / else over types.size() that fills DttConfig::axisTypes
dttAxisTypes(types, nAxes) ==
  IF Len(types) = 1
  THEN IF ~checkDttType(types[1])
       THEN [status |-> "invalid_argument", what |-> "Invalid dtt transform type",
             axisTypes |-> DttZeroArray]
       ELSE [status |-> "ok", what |-> "",
             axisTypes |-> [i \in DimIdx |->
                              IF i < nAxes THEN types[1] ELSE "dct1"]]
  ELSE IF Len(types) = nAxes
  THEN IF \E i \in 1 .. Len(types) : ~checkDttType(types[i])
       THEN [status |-> "invalid_argument", what |-> "Invalid dtt transform type",
             axisTypes |-> DttZeroArray]
       ELSE [status |-> "ok", what |-> "",
             axisTypes |-> [i \in DimIdx |->
                              IF i < Len(types) THEN types[i + 1] ELSE "dct1"]]
  ELSE [status |-> "invalid_argument", what |-> "Invalid dtt transform types",
        axisTypes |-> DttZeroArray]

DttConfig(axisTypes) == [type |-> "dtt", axisTypes |-> axisTypes]

makeDtt(p) ==
  LET d == checkDirection(p.direction)
      q == checkPrecision(p.precision)
      a == checkAxes(p.axes, Len(p.shape))
      t == dttAxisTypes(p.types, Len(p.axes))
  IN  IF d.status # "ok" THEN Failed(d)
      ELSE IF q.status # "ok" THEN Failed(q)
      ELSE IF a.status # "ok" THEN Failed(a)
      ELSE IF t.status # "ok" THEN Failed(t)
      ELSE Made(NewTransformConfig(p.direction, p.precision, p.axes,
                                   DttConfig(t.axisTypes)))

getType(cfg) == cfg.mVariant.type

(***************************************************************************)
(* DimensionsConfig                                                        *)
(***************************************************************************)
\* std::transform(list.begin(), list.end(), array.begin(), assertNotZero):
\* elements are checked and written front to back; the first zero throws.
\* oob records a write behind the last slot of the fixed-size array.
copyNotZero(list) ==
  LET zeros == {i \in 1 .. Len(list) : list[i] = 0}
      stop  == IF zeros = {}
               THEN Len(list) + 1
               ELSE CHOOSE i \in zeros : \A j \in zeros : i <= j
  IN  [status |-> IF zeros = {} THEN "ok" ELSE "runtime_error",
       what   |-> IF zeros = {} THEN "" ELSE "Invalid dimension size",
       array  |-> [i \in DimIdx |-> IF i + 1 < stop THEN list[i + 1] ELSE 0],
       oob    |-> stop - 1 > maxDimCount]

\* mutant of tooManyDimensions: the bound is off by one
tooManyDimensions_offByOne(rank) == rank > maxDimCount + 1

\* the guard "mRank > maxDimCount" of the constructor
tooManyDimensions(rank) == rank > maxDimCount

\* the two-way test on a stride list: copied when its size is the rank,
\* rejected when it has another size and is not empty, left alone when empty
strideCopy(stride, rank, what) ==
  IF Len(stride) = rank
  THEN copyNotZero(stride)
  ELSE IF Len(stride) # 0
  THEN [status |-> "runtime_error", what |-> what, array |-> ZeroArray,
        oob |-> FALSE]
  ELSE [status |-> "ok", what |-> "", array |-> ZeroArray, oob |-> FALSE]

NewDimensionsConfig(dims) ==
  LET rank == Len(dims.shape)
      sh   == copyNotZero(dims.shape)
      src  == strideCopy(dims.srcStride, rank, "Invalid source stride size")
      dst  == strideCopy(dims.dstStride, rank, "Invalid destination stride size")
  IN  IF tooManyDimensions(rank)
      THEN [status |-> "runtime_error", what |-> "Too many dimensions",
            config |-> NoConfig, oob |-> FALSE]
      ELSE IF sh.status # "ok"
      THEN [status |-> sh.status, what |-> sh.what, config |-> NoConfig,
            oob |-> sh.oob]
      ELSE IF src.status # "ok"
      THEN [status |-> src.status, what |-> src.what, config |-> NoConfig,
            oob |-> sh.oob \/ src.oob]
      ELSE IF dst.status # "ok"
      THEN [status |-> dst.status, what |-> dst.what, config |-> NoConfig,
            oob |-> sh.oob \/ src.oob \/ dst.oob]
      ELSE [status |-> "ok", what |-> "",
            config |-> [type        |-> "DimensionsConfig",
                        mRank       |-> rank,
                        mShape      |-> sh.array,
                        mSrcStrides |-> src.array,
                        mDstStrides |-> dst.array],
            oob |-> sh.oob \/ src.oob \/ dst.oob]

hasSrcStride(cfg) == cfg.mSrcStrides[0] # 0

hasDstStride(cfg) == cfg.mDstStrides[0] # 0

(***************************************************************************)
(* TransformConfig::correctDimensionsConfig                                *)
(***************************************************************************)
\* mutant of defaultStrideGenerator: the extent of the axis before is used
defaultStrideGenerator_axisBefore(shape, axis, prevStride) ==
  shape[axis - 1] * prevStride

defaultStrideGenerator(shape, axis, prevStride) == shape[axis] * prevStride

dftHermitComplexStrideGenerator(shape, redAxis, axis, prevStride) ==
  LET size == shape[axis]
  IN  (IF axis = redAxis THEN (size \div 2) + 1 ELSE size) * prevStride

dftRealStrideGenerator(shape, redAxis, placement, axis, prevStride) ==
  LET size == shape[axis]
  IN  (IF placement = "inPlace" /\ axis = redAxis
       THEN 2 * ((size \div 2) + 1)
       ELSE size) * prevStride

\* the lambdas capture redAxis = mAxes.back(): the last slot of the
\* fixed-size array mAxes
redAxisOf(cfg) == cfg.mAxes[maxDimCount - 1]

\* the call fn(axis, prevStride) of the generator g chosen by the switch
strideFn(g, axis, prevStride) ==
  CASE g.fn = "hermit" ->
         dftHermitComplexStrideGenerator(g.shape, g.redAxis, axis, prevStride)
    [] g.fn = "real" ->
         dftRealStrideGenerator(g.shape, g.redAxis, g.placement, axis, prevStride)
    [] OTHER -> defaultStrideGenerator(g.shape, axis, prevStride)

\* the for loop of generateStrides, i = 0 .. rank-1, on the span of length rank
RECURSIVE generateStridesLoop(_, _, _, _)
generateStridesLoop(strides, rank, i, g) ==
  IF i >= rank
  THEN strides
  ELSE IF i = 0
  THEN generateStridesLoop([strides EXCEPT ![rank - 1] = 1], rank, i + 1, g)
  ELSE LET axis == rank - i - 1
       IN  generateStridesLoop(
             [strides EXCEPT ![axis] = strideFn(g, axis + 1, strides[axis + 1])],
             rank, i + 1, g)

generateStrides(strides, rank, g) == generateStridesLoop(strides, rank, 0, g)

\* the generator the inner switch picks for a DFT format
generatorFor(format) ==
  CASE format \in {"hermitianComplexInterleaved", "hermitianComplexPlanar"} ->
         "hermit"
    [] format = "real" -> "real"
    [] OTHER -> "default"

\* switch (getType()): case dft has no break after its inner switch, so
\* control runs on into default, which generates the strides a second time
\* with the default generator
correctSide(tcfg, dcfg, placement, strides, side) ==
  LET g(fn) == [fn |-> fn, shape |-> dcfg.mShape, redAxis |-> redAxisOf(tcfg),
                placement |-> placement]
  IN  IF getType(tcfg) = "dft"
      THEN LET format == IF side = "src" THEN tcfg.mVariant.srcFormat
                                         ELSE tcfg.mVariant.dstFormat
               first  == generateStrides(strides, dcfg.mRank,
                                         g(generatorFor(format)))
           IN  generateStrides(first, dcfg.mRank, g("default"))
      ELSE generateStrides(strides, dcfg.mRank, g("default"))

\* mutant of correctDimensionsConfig: both sides are generated, set or not
correctDimensionsConfig_bothSides(tcfg, dcfg, placement) ==
  [dcfg EXCEPT
     !.mSrcStrides = correctSide(tcfg, dcfg, placement, @, "src"),
     !.mDstStrides = correctSide(tcfg, dcfg, placement, @, "dst")]

correctDimensionsConfig(tcfg, dcfg, placement) ==
  [dcfg EXCEPT
     !.mSrcStrides = IF ~hasSrcStride(dcfg)
                     THEN correctSide(tcfg, dcfg, placement, @, "src")
                     ELSE @,
     !.mDstStrides = IF ~hasDstStride(dcfg)
                     THEN correctSide(tcfg, dcfg, placement, @, "dst")
                     ELSE @]

(***************************************************************************)
(* TransformConfig::getNormFactor                                          *)
(***************************************************************************)
\* forEachAxisSize with the DFT lambda: n *= axisSize for i = 0 .. mRank-1
RECURSIVE dftAccumulate(_, _, _, _)
dftAccumulate(cfg, shape, i, n) ==
  IF i >= cfg.mRank
  THEN n
  ELSE dftAccumulate(cfg, shape, i + 1, n * shape[cfg.mAxes[i] + 1])

\* the contribution of one axis in the DTT lambda
dttAxisFactor(type, axisSize) ==
  CASE type = "dct1" -> 2 * (axisSize - 1)
    [] type = "dst1" -> 2 * (axisSize + 1)
    [] OTHER         -> 2 * axisSize

\* forEachAxisSize with the DTT lambda; an axis type outside the eight kinds
\* throws from inside the loop
RECURSIVE dttAccumulate(_, _, _, _)
dttAccumulate(cfg, shape, i, n) ==
  IF i >= cfg.mRank
  THEN [status |-> "ok", what |-> "", n |-> n]
  ELSE LET type == cfg.mVariant.axisTypes[i]
           size == shape[cfg.mAxes[i] + 1]
       IN  IF type \notin DttTypes
           THEN [status |-> "runtime_error", what |-> "Invalid axis type", n |-> n]
           ELSE dttAccumulate(cfg, shape, i + 1, n * dttAxisFactor(type, size))

\* the result of a call: the exception and the value of n when it was thrown;
\* factor is a term over n (kind none: no factor was returned)
NormThrow(type, what, n) ==
  [status |-> type, what |-> what, n |-> n, factor |-> [kind |-> "none", n |-> 0]]

\* switch (transform type) as written: no case ends in a break.
\*   case dft: accumulates, then runs on into case dtt, whose first statement
\*             takes the DttConfig alternative out of a variant that holds a
\*             DftConfig (std::get throws std::bad_variant_access);
\*   case dtt: accumulates, then runs on into default, which throws.
\* The switch over the normalization behind it is reached from no case, so
\* no call returns a factor.
getNormFactor(cfg, shape, normalize) ==
  IF ~hasPrecision(cfg.mPrec.execution)
  THEN NormThrow("runtime_error", "Invalid precision", 1)
  ELSE IF getType(cfg) = "dft"
  THEN NormThrow("bad_variant_access", "std::get: wrong index for variant",
                 dftAccumulate(cfg, shape, 0, 1))
  ELSE IF getType(cfg) = "dtt"
  THEN LET acc == dttAccumulate(cfg, shape, 0, 1)
       IN  IF acc.status # "ok"
           THEN NormThrow(acc.status, acc.what, acc.n)
           ELSE NormThrow("runtime_error", "Invalid transform type", acc.n)
  ELSE NormThrow("runtime_error", "Invalid transform type", 1)

NormNotCalled == NormThrow("not_called", "", 0)

(***************************************************************************)
(* TargetConfig                                                            *)
(* hardwareConcurrency is the value std::thread::hardware_concurrency()    *)
(* returns on the machine, 0 when it cannot be computed.                   *)
(***************************************************************************)
\* mutant of stdMin: the first argument is returned
stdMin_first(a, b) == a

\* std::min(a, b)
stdMin(a, b) == IF b < a THEN b ELSE a

CpuConfig(alignment, threadLimit) ==
  [type |-> "CpuConfig", alignment |-> alignment, threadLimit |-> threadLimit]

\* TargetConfig::make(const afft::cpu::Parameters&)
makeCpuTarget(cpuParams, concurrency) ==
  [status |-> "ok", what |-> "",
   config |-> [type     |-> "TargetConfig",
               mVariant |-> CpuConfig(cpuParams.alignment,
                                      stdMin(cpuParams.threadLimit, concurrency))]]

\* TargetConfig::getTarget: the index of the variant's alternative
targetOf(cfg) ==
  IF cfg.mVariant.type = "CpuConfig" THEN "cpu" ELSE "gpu"

NoTargetParams == [target |-> "none", alignment |-> 0, threadLimit |-> 0]

NoTarget == [status |-> "not_called", what |-> "", config |-> NoConfig]

(***************************************************************************)
(* operator== / operator!= of the two descriptors                          *)
(***************************************************************************)
\* mutant of dimensionsEqual: the source strides of the left side are
\* compared with the destination strides of the right side
dimensionsEqual_srcAgainstDst(lhs, rhs) ==
  /\ lhs.mRank = rhs.mRank
  /\ \A i \in DimIdx :
       i < lhs.mRank =>
         /\ lhs.mShape[i] = rhs.mShape[i]
         /\ lhs.mSrcStrides[i] = rhs.mDstStrides[i]
         /\ lhs.mDstStrides[i] = rhs.mDstStrides[i]

\* operator==(const DimensionsConfig&, const DimensionsConfig&)
dimensionsEqual(lhs, rhs) ==
  /\ lhs.mRank = rhs.mRank
  /\ \A i \in DimIdx :
       i < lhs.mRank =>
         /\ lhs.mShape[i] = rhs.mShape[i]
         /\ lhs.mSrcStrides[i] = rhs.mSrcStrides[i]
         /\ lhs.mDstStrides[i] = rhs.mDstStrides[i]

\* operator!=(const DimensionsConfig&, const DimensionsConfig&)
dimensionsNotEqual(lhs, rhs) == ~dimensionsEqual(lhs, rhs)

\* operator== of std::variant<DftConfig, DttConfig>: the same alternative
\* and, by the defaulted operator== of the alternative, the same members
variantEqual(lhs, rhs) ==
  IF lhs.type # rhs.type THEN FALSE ELSE lhs = rhs

\* operator==(const TransformConfig&, const TransformConfig&)
transformEqual(lhs, rhs) ==
  /\ lhs.mRank = rhs.mRank
  /\ \A i \in DimIdx : i < lhs.mRank => lhs.mAxes[i] = rhs.mAxes[i]
  /\ variantEqual(lhs.mVariant, rhs.mVariant)

\* operator!=(const TransformConfig&, const TransformConfig&)
transformNotEqual(lhs, rhs) == ~transformEqual(lhs, rhs)

(***************************************************************************)
(* Parameter sets handed to the library                                    *)
(***************************************************************************)
Triad(e, s, d) == [execution |-> e, source |-> s, destination |-> d]

\* "f128" stands for a precision the build does not support
PrecisionInputs == {"f32", "f128"}

TriadInputs ==
  {Triad(e, s, d) : e \in PrecisionInputs, s \in PrecisionInputs,
                    d \in PrecisionInputs}

DirectionInputs == Directions \cup {"invalid"}

FormatInputs == Formats \cup {"invalid"}

DttTypeInputs == DttTypes \cup {"invalid"}

BaseParams ==
  [kind       |-> "dft",
   direction  |-> "forward",
   precision  |-> Triad("f32", "f32", "f32"),
   shape      |-> <<4, 6>>,
   srcStride  |-> <<>>,
   dstStride  |-> <<>>,
   axes       |-> <<1>>,
   srcFormat  |-> "complexInterleaved",
   dstFormat  |-> "complexInterleaved",
   types      |-> <<>>,
   placement  |-> "outOfPlace",
   normalize  |-> "none"]

Const(n, v) == [i \in 1 .. n |-> v]

\* sequences of v of length 0 .. maxLen with at most one element replaced by 0
OneZeroSeqs(v, maxLen) ==
  {[i \in 1 .. n |-> IF i = z THEN 0 ELSE v] : n \in 0 .. maxLen, z \in 0 .. maxLen}

Injective(s) == \A i, j \in DOMAIN s : s[i] = s[j] => i = j

\* The parameter sets the model starts from, family by family. Each is a
\* predicate on a parameter set p.

\* every axes list against every shape rank
AxesFamily(p) ==
  \E r \in 0 .. MaxShapeRank, a \in SeqsUpTo(0 .. maxDimCount, maxDimCount + 1) :
    p = [BaseParams EXCEPT !.shape = Const(r, 2), !.axes = a]

\* every direction, precision triad and format pair of a DFT
FormatFamily(p) ==
  \E d \in DirectionInputs, t \in TriadInputs, sf \in FormatInputs,
     df \in FormatInputs, pl \in Placements, nm \in Normalizations :
    p = [BaseParams EXCEPT !.direction = d, !.precision = t, !.srcFormat = sf,
                           !.dstFormat = df, !.placement = pl, !.normalize = nm]

\* every type list of a DTT against every axes list over a shape of rank 2,
\* and every direction and precision triad of a DTT
DttFamily(p) ==
  \/ \E a \in SeqsUpTo(0 .. 2, 2), t \in SeqsUpTo(DttTypeInputs, MaxTypesLen),
        nm \in Normalizations :
       p = [BaseParams EXCEPT !.kind = "dtt", !.shape = <<5, 1>>, !.axes = a,
                              !.types = t, !.normalize = nm,
                              !.srcFormat = "none", !.dstFormat = "none"]
  \/ \E d \in DirectionInputs, t \in TriadInputs :
       p = [BaseParams EXCEPT !.kind = "dtt", !.shape = <<5, 1>>,
                              !.axes = <<0, 1>>, !.types = <<"dct1">>,
                              !.direction = d, !.precision = t,
                              !.srcFormat = "none", !.dstFormat = "none"]

\* shapes of rank 1 and 2 with every valid axes list, every DFT format pair
\* with a real or plain complex source and a DTT, both placements, strides
\* given or omitted on each side
StrideShapes == UNION {[1 .. k -> 1 .. MaxExtent] : k \in 1 .. 2}

ValidAxesOf(rank) ==
  {a \in SeqsUpTo(0 .. (rank - 1), rank) : Len(a) > 0 /\ Injective(a)}

StrideVariants ==
  {<<"dft", f[1], f[2]>> : f \in {"real", "complexInterleaved", "complexPlanar"}
                                   \X Formats}
  \cup {<<"dtt", "none", "none">>}

StrideFamily(p) ==
  \E sh \in StrideShapes, v \in StrideVariants, pl \in Placements,
     givenSrc \in BOOLEAN, givenDst \in BOOLEAN :
    \E a \in ValidAxesOf(Len(sh)) :
      p = [BaseParams EXCEPT
             !.kind = v[1], !.srcFormat = v[2], !.dstFormat = v[3],
             !.types = IF v[1] = "dtt" THEN <<"dct2">> ELSE <<>>,
             !.shape = sh, !.axes = a, !.placement = pl,
             !.srcStride = IF givenSrc THEN Const(Len(sh), 3) ELSE <<>>,
             !.dstStride = IF givenDst THEN Const(Len(sh), 3) ELSE <<>>,
             !.normalize = "unitary"]

\* shapes of rank 3 up to maxDimCount with every valid axes list (also of
\* full transform rank), strides omitted
DeepStrideShapes == UNION {[1 .. k -> 2 .. 3] : k \in 3 .. maxDimCount}

DeepStrideFamily(p) ==
  \E sh \in DeepStrideShapes, v \in StrideVariants, pl \in Placements :
    \E a \in ValidAxesOf(Len(sh)) :
      p = [BaseParams EXCEPT
             !.kind = v[1], !.srcFormat = v[2], !.dstFormat = v[3],
             !.types = IF v[1] = "dtt" THEN <<"dct2">> ELSE <<>>,
             !.shape = sh, !.axes = a, !.placement = pl,
             !.normalize = "orthogonal"]

\* shapes and stride lists of every length, with and without a zero element
DimsFamily(p) ==
  \E sh \in OneZeroSeqs(2, MaxShapeRank), st \in OneZeroSeqs(3, MaxShapeRank),
     other \in BOOLEAN, side \in {"src", "dst"} :
    LET o == IF other THEN Const(Len(sh), 3) ELSE <<>>
    IN  p = [BaseParams EXCEPT
               !.shape = sh, !.axes = <<0>>,
               !.srcStride = IF side = "src" THEN st ELSE o,
               !.dstStride = IF side = "dst" THEN st ELSE o]

(***************************************************************************)
(* Descriptor construction: the calls a caller makes on one parameter set  *)
(***************************************************************************)
NoPlan == [type |-> "none"]

NoCall ==
  [api |-> "none", typed |-> FALSE, constSrc |-> FALSE,
   srcType |-> <<"void", "void">>, dstType |-> <<"void", "void">>,
   src |-> <<>>, dst |-> <<>>,
   execParams |-> [given |-> FALSE, target |-> "none", distribution |-> "none",
                   payload |-> "none"],
   srcPlanar |-> FALSE, dstPlanar |-> FALSE, srcImag |-> <<>>, dstImag |-> <<>>,
   single |-> FALSE]

NoDims == [status |-> "not_called", what |-> "", config |-> NoConfig,
           oob |-> FALSE]

NoReturn == [accessor |-> "none", value |-> "none"]

\* the two threads that use the library
Threads == {1, 2}

NoInitCall == [api |-> "none", status |-> "not_called", what |-> ""]

\* the library before its first use, in a build without MPI and GPU
LibraryNotUsed ==
  /\ build = [mpi |-> FALSE, gpu |-> FALSE]
  /\ isInitialized = FALSE
  /\ mpiIsInitialized = FALSE
  /\ backendLog = <<>>
  /\ initResult = NoInitCall
  /\ deinitializer = FALSE
  /\ exited = FALSE
  /\ tpc = [t \in Threads |-> "idle"]
  /\ told = [t \in Threads |-> FALSE]

Init ==
  /\ \/ AxesFamily(params)
     \/ FormatFamily(params)
     \/ DttFamily(params)
     \/ StrideFamily(params)
     \/ DeepStrideFamily(params)
     \/ DimsFamily(params)
  /\ pc = "start"
  /\ axesRes = NotCalled
  /\ tc = Failed(NotCalled)
  /\ dc = NoDims
  /\ norm = NormNotCalled
  /\ plan = NoPlan
  /\ call = NoCall
  /\ result = NotCalled
  /\ invoked = <<>>
  /\ passed = <<>>
  /\ targetParams = NoTargetParams
  /\ hardwareConcurrency = 0
  /\ targetCfg = NoTarget
  /\ returned = NoReturn
  /\ callCount = 0
  /\ LibraryNotUsed

\* checkAxes(axes, shapeRank): a pure check, nothing but its outcome changes
ValidateAxes ==
  /\ pc = "start"
  /\ axesRes' = checkAxes(params.axes, Len(params.shape))
  /\ pc' = "axes"
  /\ UNCHANGED <<params, tc, dc, norm, execVars>>

\* TransformConfig::make(const dft::Parameters&)
MakeDftConfig ==
  /\ pc = "axes"
  /\ params.kind = "dft"
  /\ tc' = makeDft(params)
  /\ pc' = "made"
  /\ UNCHANGED <<params, axesRes, dc, norm, execVars>>

\* TransformConfig::make(const dtt::Parameters&)
MakeDttConfig ==
  /\ pc = "axes"
  /\ params.kind = "dtt"
  /\ tc' = makeDtt(params)
  /\ pc' = "made"
  /\ UNCHANGED <<params, axesRes, dc, norm, execVars>>

\* DimensionsConfig::DimensionsConfig(const Dimensions&)
MakeDimensionsConfig ==
  /\ pc = "made"
  /\ dc' = NewDimensionsConfig([shape     |-> params.shape,
                                srcStride |-> params.srcStride,
                                dstStride |-> params.dstStride])
  /\ pc' = "dims"
  /\ UNCHANGED <<params, axesRes, tc, norm, execVars>>

\* TransformConfig::correctDimensionsConfig(dimsConfig, commonParams), on the
\* two descriptors built from the same parameter set
CorrectDimensions ==
  /\ pc = "dims"
  /\ tc.status = "ok"
  /\ dc.status = "ok"
  /\ dc' = [dc EXCEPT !.config =
              correctDimensionsConfig(tc.config, dc.config, params.placement)]
  /\ pc' = "corrected"
  /\ UNCHANGED <<params, axesRes, tc, norm, execVars>>

\* TransformConfig::getNormFactor(shape)
GetNormFactor ==
  /\ pc = "corrected"
  /\ norm' = getNormFactor(tc.config, params.shape, params.normalize)
  /\ pc' = "done"
  /\ UNCHANGED <<params, axesRes, tc, dc, execVars>>

Next ==
  \/ ValidateAxes
  \/ MakeDftConfig
  \/ MakeDttConfig
  \/ MakeDimensionsConfig
  \/ CorrectDimensions
  \/ GetNormFactor

Spec == Init /\ [][Next]_vars

(***************************************************************************)
(* Plan: execute / executeUnsafe                                           *)
(* plan is mDesc as Plan reads it: target, distribution, targetCount,      *)
(* placement, preserveSource, precision and the source / destination       *)
(* complexity; implemented is the set of executeBackendImpl overloads the  *)
(* concrete plan overrides. Buffers are pointers, compared for identity    *)
(* only.                                                                   *)
(***************************************************************************)
Pointers == {"null", "a", "b"}

Complexities == {"real", "complex"}

\* the five (target, distribution) pairs with execution parameters and an
\* executeBackendImpl overload
Architectures ==
  {<<"cpu", "spst">>, <<"cpu", "mpst">>, <<"gpu", "spst">>, <<"gpu", "spmt">>,
   <<"gpu", "mpst">>}

EntryPoint(target, distribution) == <<distribution, target>>

EntryPoints == {EntryPoint(a[1], a[2]) : a \in Architectures}

\* DefaultExecParams, or a value of the execution parameters type of one
\* architecture: value-initialised (payload "default") or with members set
\* by the caller (payload "custom")
DefaultExecParams ==
  [given |-> FALSE, target |-> "none", distribution |-> "none",
   payload |-> "none"]

ExecutionParameters(t, d, members) ==
  [given |-> TRUE, target |-> t, distribution |-> d, payload |-> members]

ExecResult(exc, inv) == [status |-> exc.status, what |-> exc.what, invoked |-> inv]

\* mutant of checkSrcIsPreserved: the flag is not read
checkSrcIsPreserved_never(desc) == Ok

checkSrcIsPreserved(desc) ==
  IF ~desc.preserveSource
  THEN Throw("invalid_argument",
             "running destructive transform on const source data")
  ELSE Ok

\* mutant of checkBufferCount: the destination count is not checked
checkBufferCount_sourceOnly(desc, srcCount, dstCount) ==
  IF srcCount # desc.targetCount
  THEN Throw("invalid_argument", "invalid source buffer count")
  ELSE Ok

checkBufferCount(desc, srcCount, dstCount) ==
  IF srcCount # desc.targetCount
  THEN Throw("invalid_argument", "invalid source buffer count")
  ELSE IF dstCount # desc.targetCount
  THEN Throw("invalid_argument", "invalid destination buffer count")
  ELSE Ok

checkPlacement(desc, placement) ==
  IF placement # desc.placement
  THEN Throw("invalid_argument", "placement does not match plan placement")
  ELSE Ok

\* std::equal(src.begin(), src.end(), dst.begin(), pointer identity); it runs
\* behind checkBufferCount, so both views have targetCount elements
isInPlace(src, dst) ==
  \A i \in 1 .. Len(src) : i <= Len(dst) /\ src[i] = dst[i]

\* mutant of checkExecTypeProps: out of place, the destination type is not
\* compared
checkExecTypeProps_sourceOnly(desc, srcPrec, srcCmpl, dstPrec, dstCmpl) ==
  IF desc.placement = "inPlace"
  THEN IF srcPrec # desc.precision.source
            /\ srcPrec # desc.precision.destination
       THEN Throw("invalid_argument", "invalid type precision")
       ELSE IF srcCmpl # desc.srcComplexity
                 /\ srcCmpl # desc.dstComplexity
       THEN Throw("invalid_argument", "invalid type complexity")
       ELSE Ok
  ELSE IF srcPrec # desc.precision.source
       THEN Throw("invalid_argument", "invalid source type precision")
       ELSE IF srcCmpl # desc.srcComplexity
       THEN Throw("invalid_argument", "invalid source type complexity")
       ELSE Ok

checkExecTypeProps(desc, srcPrecision, srcComplexity, dstPrecision, dstComplexity) ==
  IF desc.placement = "inPlace"
  THEN IF srcPrecision # desc.precision.source
            /\ srcPrecision # desc.precision.destination
       THEN Throw("invalid_argument", "invalid type precision")
       ELSE IF srcComplexity # desc.srcComplexity
                 /\ srcComplexity # desc.dstComplexity
       THEN Throw("invalid_argument", "invalid type complexity")
       ELSE Ok
  ELSE IF srcPrecision # desc.precision.source
       THEN Throw("invalid_argument", "invalid source type precision")
       ELSE IF dstPrecision # desc.precision.destination
       THEN Throw("invalid_argument", "invalid destination type precision")
       ELSE IF srcComplexity # desc.srcComplexity
       THEN Throw("invalid_argument", "invalid source type complexity")
       ELSE IF dstComplexity # desc.dstComplexity
       THEN Throw("invalid_argument", "invalid destination type complexity")
       ELSE Ok

\* mutant of isInPlacePlanar: the imag pointers are not compared
isInPlacePlanar_realOnly(src, srcImag, dst, dstImag) ==
  \A i \in 1 .. Len(src) : i <= Len(dst) /\ src[i] = dst[i]

\* the comparison of executeImpl1(View<PlanarComplex<SrcT>>,
\* View<PlanarComplex<DstT>>): real with real and imag with imag
isInPlacePlanar(src, srcImag, dst, dstImag) ==
  \A i \in 1 .. Len(src) :
    i <= Len(dst) /\ src[i] = dst[i] /\ srcImag[i] = dstImag[i]

\* isInPlace of the executeImpl1 overload the call selects; the two mixed
\* overloads compare the real pointer of the planar side with the pointer
\* of the other side
inferInPlace(c) ==
  IF c.srcPlanar /\ c.dstPlanar
  THEN isInPlacePlanar(c.src, c.srcImag, c.dst, c.dstImag)
  ELSE isInPlace(c.src, c.dst)

\* mutant of executeBackendImpl: the default overload returns
executeBackendImpl_defaultReturns(desc, entry) == ExecResult(Ok, <<entry>>)

\* the virtual executeBackendImpl overload of one entry point: the override
\* of the concrete plan when there is one, else the default, which throws
executeBackendImpl(desc, entry) ==
  IF entry \in desc.implemented
  THEN ExecResult(Ok, <<entry>>)
  ELSE ExecResult(Throw("logic_error",
                        "backend does not implement " \o entry[1] \o " "
                          \o entry[2] \o " execution"),
                  <<entry>>)

\* mutant of defaultDispatch: a gpu plan distributed over several devices
\* is sent to the single-device entry point
defaultDispatch_spmtAsSpst(desc) ==
  IF desc.target = "cpu"
  THEN IF desc.distribution \in {"spst", "mpst"}
       THEN executeBackendImpl(desc, EntryPoint("cpu", desc.distribution))
       ELSE ExecResult(Throw("undefined", "unreachable"), <<>>)
  ELSE IF desc.target = "gpu"
  THEN IF desc.distribution \in {"spst", "spmt"}
       THEN executeBackendImpl(desc, EntryPoint("gpu", "spst"))
       ELSE IF desc.distribution = "mpst"
       THEN executeBackendImpl(desc, EntryPoint("gpu", "mpst"))
       ELSE ExecResult(Throw("undefined", "unreachable"), <<>>)
  ELSE ExecResult(Throw("undefined", "unreachable"), <<>>)

\* the nested switch of executeImpl2 over getTarget() and getDistribution()
\* taken with DefaultExecParams
defaultDispatch(desc) ==
  IF desc.target = "cpu"
  THEN IF desc.distribution \in {"spst", "mpst"}
       THEN executeBackendImpl(desc, EntryPoint("cpu", desc.distribution))
       ELSE ExecResult(Throw("undefined", "unreachable"), <<>>)
  ELSE IF desc.target = "gpu"
  THEN IF desc.distribution \in {"spst", "spmt", "mpst"}
       THEN executeBackendImpl(desc, EntryPoint("gpu", desc.distribution))
       ELSE ExecResult(Throw("undefined", "unreachable"), <<>>)
  ELSE ExecResult(Throw("undefined", "unreachable"), <<>>)

\* mutant of executeImpl2: the destination buffers are not tested for null
executeImpl2_sourceNullOnly(desc, src, dst, execParams) ==
  IF \E i \in 1 .. Len(src) : src[i] = "null"
  THEN ExecResult(Throw("invalid_argument",
                        "a null pointer was passed as source buffer"), <<>>)
  ELSE IF ~execParams.given
  THEN defaultDispatch(desc)
  ELSE IF execParams.target # desc.target
  THEN ExecResult(Throw("invalid_argument",
         "execution parameters target does not match plan target"), <<>>)
  ELSE IF execParams.distribution # desc.distribution
  THEN ExecResult(Throw("invalid_argument",
         "execution parameters distribution does not match plan distribution"),
         <<>>)
  ELSE executeBackendImpl(desc,
                          EntryPoint(execParams.target, execParams.distribution))

\* executeImpl2: null checks, then the dispatch; with DefaultExecParams the
\* nested switch over the plan's target and distribution, else the
\* comparison of the given parameters with the plan and the overload of the
\* given parameters' type
executeImpl2(desc, src, dst, execParams) ==
  IF \E i \in 1 .. Len(src) : src[i] = "null"
  THEN ExecResult(Throw("invalid_argument",
                        "a null pointer was passed as source buffer"), <<>>)
  ELSE IF \E i \in 1 .. Len(dst) : dst[i] = "null"
  THEN ExecResult(Throw("invalid_argument",
                        "a null pointer was passed as destination buffer"), <<>>)
  ELSE IF ~execParams.given
  THEN defaultDispatch(desc)
  ELSE IF execParams.target # desc.target
  THEN ExecResult(Throw("invalid_argument",
         "execution parameters target does not match plan target"), <<>>)
  ELSE IF execParams.distribution # desc.distribution
  THEN ExecResult(Throw("invalid_argument",
         "execution parameters distribution does not match plan distribution"),
         <<>>)
  ELSE executeBackendImpl(desc,
                          EntryPoint(execParams.target, execParams.distribution))

\* mutant of backendParams: the caller's execution parameters are replaced
\* by value-initialised ones
backendParams_alwaysDefault(desc, execParams) ==
  ExecutionParameters(desc.target, desc.distribution, "default")

\* the third argument of the executeBackendImpl call of executeImpl2:
\* ExecutionParameters{} of the plan's architecture with DefaultExecParams,
\* else the caller's execParams
backendParams(desc, execParams) ==
  IF ~execParams.given
  THEN ExecutionParameters(desc.target, desc.distribution, "default")
  ELSE execParams

\* mutant of executeImpl1: the buffer count is checked before the
\* preservation of the source
executeImpl1_countFirst(desc, c) ==
  LET p == IF c.constSrc THEN checkSrcIsPreserved(desc) ELSE Ok
      n == checkBufferCount(desc, Len(c.src), Len(c.dst))
      l == checkPlacement(desc, IF inferInPlace(c) THEN "inPlace"
                                                   ELSE "outOfPlace")
      t == IF c.typed
           THEN checkExecTypeProps(desc, c.srcType[1], c.srcType[2],
                                   c.dstType[1], c.dstType[2])
           ELSE Ok
  IN  IF n.status # "ok" THEN ExecResult(n, <<>>)
      ELSE IF p.status # "ok" THEN ExecResult(p, <<>>)
      ELSE IF l.status # "ok" THEN ExecResult(l, <<>>)
      ELSE IF t.status # "ok" THEN ExecResult(t, <<>>)
      ELSE executeImpl2(desc, c.src, c.dst, c.execParams)

\* mutant of executeImpl1: the type check runs behind executeImpl2
executeImpl1_typeCheckLast(desc, c) ==
  LET p == IF c.constSrc THEN checkSrcIsPreserved(desc) ELSE Ok
      n == checkBufferCount(desc, Len(c.src), Len(c.dst))
      l == checkPlacement(desc, IF inferInPlace(c) THEN "inPlace"
                                                   ELSE "outOfPlace")
      t == IF c.typed
           THEN checkExecTypeProps(desc, c.srcType[1], c.srcType[2],
                                   c.dstType[1], c.dstType[2])
           ELSE Ok
      r == executeImpl2(desc, c.src, c.dst, c.execParams)
  IN  IF p.status # "ok" THEN ExecResult(p, <<>>)
      ELSE IF n.status # "ok" THEN ExecResult(n, <<>>)
      ELSE IF l.status # "ok" THEN ExecResult(l, <<>>)
      ELSE IF r.status # "ok" THEN r
      ELSE IF t.status # "ok" THEN ExecResult(t, r.invoked)
      ELSE r

\* executeImpl1(src, dst, execParams), the four overloads over pointer and
\* PlanarComplex views: c.constSrc is std::is_const_v<SrcT>, c.typed is
\* !std::is_void_v<SrcT>; the overloads differ in the comparison of isInPlace
executeImpl1(desc, c) ==
  LET p == IF c.constSrc THEN checkSrcIsPreserved(desc) ELSE Ok
      n == checkBufferCount(desc, Len(c.src), Len(c.dst))
      l == checkPlacement(desc, IF inferInPlace(c) THEN "inPlace"
                                                   ELSE "outOfPlace")
      t == IF c.typed
           THEN checkExecTypeProps(desc, c.srcType[1], c.srcType[2],
                                   c.dstType[1], c.dstType[2])
           ELSE Ok
  IN  IF p.status # "ok" THEN ExecResult(p, <<>>)
      ELSE IF n.status # "ok" THEN ExecResult(n, <<>>)
      ELSE IF l.status # "ok" THEN ExecResult(l, <<>>)
      ELSE IF t.status # "ok" THEN ExecResult(t, <<>>)
      ELSE executeImpl2(desc, c.src, c.dst, c.execParams)

(***************************************************************************)
(* The plans that are executed and the calls made on them                  *)
(***************************************************************************)
BasePlan ==
  [type           |-> "Desc",
   target         |-> "cpu",
   distribution   |-> "spst",
   targetCount    |-> 1,
   placement      |-> "outOfPlace",
   preserveSource |-> TRUE,
   precision      |-> Triad("f32", "f32", "f32"),
   srcComplexity  |-> "real",
   dstComplexity  |-> "complex",
   implemented    |-> EntryPoints]

\* every architecture, with a backend that overrides every entry point, the
\* plan's own one only, or none
ArchitecturePlans(d) ==
  \E a \in Architectures, impl \in {"all", "own", "none"} :
    d = [BasePlan EXCEPT
           !.target = a[1], !.distribution = a[2],
           !.implemented = CASE impl = "all"  -> EntryPoints
                             [] impl = "own"  -> {EntryPoint(a[1], a[2])}
                             [] impl = "none" -> {}]

\* every target count, placement and preserveSource flag
LayoutPlans(d) ==
  \E n \in 1 .. MaxTargetCount, pl \in Placements, keep \in BOOLEAN :
    d = [BasePlan EXCEPT !.targetCount = n, !.placement = pl,
                         !.preserveSource = keep]

\* every declared source and destination type
TypePlans(d) ==
  \E sp \in SupportedPrecisions, dp \in SupportedPrecisions,
     sx \in Complexities, dx \in Complexities, pl \in Placements :
    d = [BasePlan EXCEPT !.precision = Triad("f32", sp, dp),
                         !.srcComplexity = sx, !.dstComplexity = dx,
                         !.placement = pl]

BufferLists == SeqsUpTo(Pointers, MaxTargetCount + 1)

ElemTypes == SupportedPrecisions \X Complexities

ExecParamInputs ==
  {DefaultExecParams}
  \cup {ExecutionParameters(a[1], a[2], pl) :
          a \in Architectures, pl \in {"default", "custom"}}

Call(fn, isConst, SrcT, DstT, srcs, dsts, ep) ==
  [api |-> fn, typed |-> fn = "execute", constSrc |-> isConst,
   srcType |-> SrcT, dstType |-> DstT, src |-> srcs, dst |-> dsts,
   execParams |-> ep,
   srcPlanar |-> FALSE, dstPlanar |-> FALSE, srcImag |-> <<>>, dstImag |-> <<>>,
   single |-> FALSE]

\* the same call with PlanarComplex buffers on the source side, the
\* destination side or both: src / dst then hold the real and srcImag /
\* dstImag the imag pointers
PlanarCall(c, srcIsPlanar, dstIsPlanar, srcImags, dstImags) ==
  [c EXCEPT !.srcPlanar = srcIsPlanar, !.dstPlanar = dstIsPlanar,
            !.srcImag = srcImags, !.dstImag = dstImags]

\* execute(srcDst): the one view is passed as source and as destination
SrcDstCall(c) == [c EXCEPT !.single = TRUE]

Void == <<"void", "void">>

InitExec ==
  /\ params = BaseParams
  /\ pc = "plan"
  /\ axesRes = NotCalled
  /\ tc = Failed(NotCalled)
  /\ dc = NoDims
  /\ norm = NormNotCalled
  /\ \/ ArchitecturePlans(plan)
     \/ LayoutPlans(plan)
     \/ TypePlans(plan)
  /\ call = NoCall
  /\ result = NotCalled
  /\ invoked = <<>>
  /\ passed = <<>>
  /\ targetParams = NoTargetParams
  /\ hardwareConcurrency = 0
  /\ targetCfg = NoTarget
  /\ returned = NoReturn
  /\ callCount = 0
  /\ LibraryNotUsed

\* execute is const on the plan and its outcome depends on the plan and the
\* arguments only: a behaviour carries one call
Idle == call = NoCall

\* mutant of Run: a call with explicit execution parameters clears the
\* preserveSource flag of the descriptor
Run_clearsPreserveSource(c) ==
  LET r == executeImpl1(plan, c)
  IN  /\ call' = c
      /\ result' = [status |-> r.status, what |-> r.what]
      /\ invoked' = r.invoked
      /\ passed' = IF r.invoked = <<>>
                   THEN <<>>
                   ELSE <<backendParams(plan, c.execParams)>>
      /\ callCount' = callCount + 1
      /\ plan' = IF c.execParams.given
                 THEN [plan EXCEPT !.preserveSource = FALSE]
                 ELSE plan
      /\ UNCHANGED <<descVars, targetVars, returned, libVars>>

\* one call: mDesc is read through its const getters only, the plan is the
\* same after the call, whether it returns or throws
Run(c) ==
  LET r == executeImpl1(plan, c)
  IN  /\ call' = c
      /\ result' = [status |-> r.status, what |-> r.what]
      /\ invoked' = r.invoked
      /\ passed' = IF r.invoked = <<>>
                   THEN <<>>
                   ELSE <<backendParams(plan, c.execParams)>>
      /\ callCount' = callCount + 1
      /\ UNCHANGED <<plan, descVars, targetVars, returned, libVars>>

\* execute(View<SrcT*> src, View<DstT*> dst, execParams) with typed buffers:
\* any buffer lists with the element types fixed, or any element types and
\* execution parameters with buffer lists of one element
Execute ==
  /\ Idle
  /\ \/ \E src \in BufferLists, dst \in BufferLists, constSrc \in BOOLEAN :
          Run(Call("execute", constSrc, <<"f32", "real">>, <<"f32", "complex">>,
                   src, dst, DefaultExecParams))
     \/ \E st \in ElemTypes, dt \in ElemTypes, constSrc \in BOOLEAN,
           dst \in {<<"a">>, <<"b">>}, ep \in ExecParamInputs :
          Run(Call("execute", constSrc, st, dt, <<"a">>, dst, ep))

\* executeUnsafe(View<const void*> / View<void*> src, View<void*> dst,
\* execParams)
ExecuteUnsafe ==
  /\ Idle
  /\ \/ \E src \in BufferLists, dst \in BufferLists, constSrc \in BOOLEAN :
          Run(Call("executeUnsafe", constSrc, Void, Void, src, dst,
                   DefaultExecParams))
     \/ \E constSrc \in BOOLEAN, src \in {<<"a">>, <<"null">>},
           dst \in {<<"a">>, <<"b">>}, ep \in ExecParamInputs :
          Run(Call("executeUnsafe", constSrc, Void, Void, src, dst, ep))

\* execute(View<SrcDstT*> srcDst, execParams) and execute(SrcDstT* srcDst,
\* execParams): non-const, typed, the view passed twice
ExecuteSrcDst ==
  /\ Idle
  /\ \E buf \in BufferLists, t \in ElemTypes, ep \in ExecParamInputs :
       Run(SrcDstCall(Call("execute", FALSE, t, t, buf, buf, ep)))

\* non-null pointers, the parts of the PlanarComplex buffers handed in
PlanarParts == {"a", "b"}

PartLists(n) == [1 .. n -> PlanarParts]

\* execute / executeUnsafe with PlanarComplex buffers on one side or on both,
\* source and destination views of the same length
ExecutePlanar ==
  /\ Idle
  /\ \E n \in 1 .. MaxTargetCount, fn \in {"execute", "executeUnsafe"},
        constSrc \in BOOLEAN :
       \E src \in PartLists(n), dst \in PartLists(n) :
         LET T == IF fn = "execute" THEN <<"f32", "real">> ELSE Void
             c == Call(fn, constSrc, T, T, src, dst, DefaultExecParams)
         IN  \/ \E si \in PartLists(n), di \in PartLists(n) :
                  Run(PlanarCall(c, TRUE, TRUE, si, di))
             \/ \E si \in PartLists(n) : Run(PlanarCall(c, TRUE, FALSE, si, <<>>))
             \/ \E di \in PartLists(n) : Run(PlanarCall(c, FALSE, TRUE, <<>>, di))

NextExec ==
  \/ Execute
  \/ ExecuteUnsafe
  \/ ExecuteSrcDst
  \/ ExecutePlanar

SpecExec == InitExec /\ [][NextExec]_vars

(***************************************************************************)
(* A sequence of calls on one plan: execute, executeUnsafe and the         *)
(* accessors, in any order, each call on the plan the calls before left    *)
(***************************************************************************)
MaxCalls == 3

CallsLeft == callCount < MaxCalls

\* Plan::getTarget, Plan::getTargetCount and Plan::getDistribution: const
\* member functions that return the value mDesc holds
getTarget(desc) == desc.target

getTargetCount(desc) == desc.targetCount

getDistribution(desc) == desc.distribution

Accessors == {"getTarget", "getTargetCount", "getDistribution"}

accessorValue(desc, accessor) ==
  CASE accessor = "getTarget" -> getTarget(desc)
    [] accessor = "getTargetCount" -> getTargetCount(desc)
    [] accessor = "getDistribution" -> getDistribution(desc)

\* source and destination views: out of place, in place, with a null
\* pointer, of two buffers, of different lengths
SequenceBuffers ==
  {<<<<"a">>, <<"b">>>>, <<<<"a">>, <<"a">>>>, <<<<"null">>, <<"b">>>>,
   <<<<"a", "b">>, <<"a", "b">>>>, <<<<"a">>, <<"a", "b">>>>}

SequenceExecParams ==
  {DefaultExecParams, ExecutionParameters("gpu", "spst", "custom")}

\* execute(View<SrcT*>, View<DstT*>, execParams) on the plan as it is
ExecuteNext ==
  /\ CallsLeft
  /\ \E T \in {<<"f32", "real">>, <<"f64", "complex">>}, constSrc \in BOOLEAN,
        b \in SequenceBuffers, ep \in SequenceExecParams :
       Run(Call("execute", constSrc, T, <<"f32", "complex">>, b[1], b[2], ep))

\* executeUnsafe(View<void*>, View<void*>, execParams) on the plan as it is
ExecuteUnsafeNext ==
  /\ CallsLeft
  /\ \E constSrc \in BOOLEAN, b \in SequenceBuffers, ep \in SequenceExecParams :
       Run(Call("executeUnsafe", constSrc, Void, Void, b[1], b[2], ep))

\* one of the accessors
ReadAccessor ==
  /\ CallsLeft
  /\ \E a \in Accessors :
       returned' = [accessor |-> a, value |-> accessorValue(plan, a)]
  /\ callCount' = callCount + 1
  /\ UNCHANGED <<descVars, plan, call, result, invoked, passed, targetVars,
                 libVars>>

NextCalls ==
  \/ ExecuteNext
  \/ ExecuteUnsafeNext
  \/ ReadAccessor

SpecCalls == InitExec /\ [][NextCalls]_vars

(***************************************************************************)
(* Library initialisation: afft::detail::init / finalize / Deinitializer   *)
(* build.mpi is AFFT_DISTRIB_IMPL_IS_ENABLED(MPI), build.gpu is            *)
(* AFFT_GPU_IS_ENABLED. Whether a backend's init succeeds is decided by    *)
(* the backend library (fftw_init_threads returning 0 makes                *)
(* cpu::fftw3::init throw) and is an input of each call.                   *)
(***************************************************************************)
BackendEvent(backend, op, ok) == [backend |-> backend, op |-> op, ok |-> ok]

InitOutcome(flag, exc, events) ==
  [isInitialized |-> flag, status |-> exc.status, what |-> exc.what,
   events |-> events]

\* the body of if (!std::exchange(isInitialized, true)) { ... }: the MPI
\* test, cpu::init, gpu::init; each of them may throw and ends the call
initBackends(bld, mpiInit, cpuOk, gpuOk) ==
  IF bld.mpi /\ ~mpiInit
  THEN [exc    |-> Throw("runtime_error",
                         "MPI must be initialized before afft::init() is called."),
        events |-> <<>>]
  ELSE IF ~cpuOk
  THEN [exc    |-> Throw("runtime_error", "[FFTW3 error] initialization failed."),
        events |-> <<BackendEvent("cpu", "init", FALSE)>>]
  ELSE IF ~bld.gpu
  THEN [exc |-> Ok, events |-> <<BackendEvent("cpu", "init", TRUE)>>]
  ELSE IF ~gpuOk
  THEN [exc    |-> Throw("runtime_error",
                         "Failed to set ROCFFT_RTC_CACHE_PATH environment variable."),
        events |-> <<BackendEvent("cpu", "init", TRUE),
                     BackendEvent("gpu", "init", FALSE)>>]
  ELSE [exc    |-> Ok,
        events |-> <<BackendEvent("cpu", "init", TRUE),
                     BackendEvent("gpu", "init", TRUE)>>]

\* init(cpuInitParams, gpuInitParams) as one call: std::exchange sets the
\* flag before the body runs, and nothing resets it when the body throws
init(flag, bld, mpiInit, cpuOk, gpuOk) ==
  IF flag
  THEN InitOutcome(TRUE, Ok, <<>>)
  ELSE LET b == initBackends(bld, mpiInit, cpuOk, gpuOk)
       IN  InitOutcome(TRUE, b.exc, b.events)

\* finalize(): if (std::exchange(isInitialized, false)) { cpu::finalize();
\* gpu::finalize(); }
finalize(flag, bld) ==
  IF flag
  THEN InitOutcome(FALSE, Ok,
                   IF bld.gpu
                   THEN <<BackendEvent("cpu", "finalize", TRUE),
                          BackendEvent("gpu", "finalize", TRUE)>>
                   ELSE <<BackendEvent("cpu", "finalize", TRUE)>>)
  ELSE InitOutcome(FALSE, Ok, <<>>)

\* Deinitializer::~Deinitializer(): if (isInitialized) finalize();
deinitialize(flag, bld) ==
  IF flag THEN finalize(flag, bld) ELSE InitOutcome(flag, Ok, <<>>)

Builds == [mpi : BOOLEAN, gpu : BOOLEAN]

InitLibrary ==
  /\ params = BaseParams
  /\ pc = "library"
  /\ axesRes = NotCalled
  /\ tc = Failed(NotCalled)
  /\ dc = NoDims
  /\ norm = NormNotCalled
  /\ plan = NoPlan
  /\ call = NoCall
  /\ result = NotCalled
  /\ invoked = <<>>
  /\ passed = <<>>
  /\ targetParams = NoTargetParams
  /\ hardwareConcurrency = 0
  /\ targetCfg = NoTarget
  /\ returned = NoReturn
  /\ callCount = 0
  /\ build \in Builds
  /\ isInitialized = FALSE
  /\ mpiIsInitialized \in BOOLEAN
  /\ build.mpi \/ ~mpiIsInitialized
  /\ backendLog = <<>>
  /\ initResult = NoInitCall
  /\ deinitializer = FALSE
  /\ exited = FALSE
  /\ tpc = [t \in Threads |-> "idle"]
  /\ told = [t \in Threads |-> FALSE]

notLibVars ==
  <<descVars, plan, call, result, invoked, passed, targetVars, returned>>

InitResult(fn, outcome) ==
  [api |-> fn, status |-> outcome.status, what |-> outcome.what]

\* one call of init on the one thread of the program; the static
\* Deinitializer is constructed by the first call
CallInit ==
  /\ ~exited
  /\ CallsLeft
  /\ \E cpuOk \in BOOLEAN, gpuOk \in BOOLEAN :
       LET r == init(isInitialized, build, mpiIsInitialized, cpuOk, gpuOk)
       IN  /\ isInitialized' = r.isInitialized
           /\ backendLog' = backendLog \o r.events
           /\ initResult' = InitResult("init", r)
  /\ deinitializer' = TRUE
  /\ callCount' = callCount + 1
  /\ UNCHANGED <<notLibVars, build, mpiIsInitialized, exited, tpc, told>>

\* one call of finalize
CallFinalize ==
  /\ ~exited
  /\ CallsLeft
  /\ LET r == finalize(isInitialized, build)
     IN  /\ isInitialized' = r.isInitialized
         /\ backendLog' = backendLog \o r.events
         /\ initResult' = InitResult("finalize", r)
  /\ callCount' = callCount + 1
  /\ UNCHANGED <<notLibVars, build, mpiIsInitialized, deinitializer, exited,
                 tpc, told>>

\* the program calls MPI_Init: from now on MPI_Initialized reports true
MpiInit ==
  /\ ~exited
  /\ build.mpi
  /\ ~mpiIsInitialized
  /\ mpiIsInitialized' = TRUE
  /\ UNCHANGED <<notLibVars, callCount, build, isInitialized, backendLog,
                 initResult, deinitializer, exited, tpc, told>>

\* the process ends: the destructor of the static Deinitializer runs when
\* init has constructed it
ProcessExit ==
  /\ ~exited
  /\ \A t \in Threads : tpc[t] \in {"idle", "done", "failed"}
  /\ exited' = TRUE
  /\ LET r == IF deinitializer
              THEN deinitialize(isInitialized, build)
              ELSE InitOutcome(isInitialized, Ok, <<>>)
     IN  /\ isInitialized' = r.isInitialized
         /\ backendLog' = backendLog \o r.events
         /\ initResult' = InitResult("exit", r)
  /\ UNCHANGED <<notLibVars, callCount, build, mpiIsInitialized, deinitializer,
                 tpc, told>>

NextInit ==
  \/ CallInit
  \/ CallFinalize
  \/ MpiInit
  \/ ProcessExit

SpecInit == InitLibrary /\ [][NextInit]_vars

(***************************************************************************)
(* init called from two threads. isInitialized is a plain bool, so         *)
(* std::exchange(isInitialized, true) is a read of the old value followed  *)
(* by a write of the new one, and the steps of the two threads interleave. *)
(* The static Deinitializer is constructed once, by the thread that comes  *)
(* first.                                                                  *)
(***************************************************************************)
\* thread t enters init: static Deinitializer deinitializer{};
EnterInit(t) ==
  /\ ~exited
  /\ tpc[t] = "idle"
  /\ tpc' = [tpc EXCEPT ![t] = "read"]
  /\ deinitializer' = TRUE
  /\ UNCHANGED <<notLibVars, callCount, build, isInitialized, mpiIsInitialized,
                 backendLog, initResult, exited, told>>

\* std::exchange: the old value of isInitialized is read
ExchangeRead(t) ==
  /\ tpc[t] = "read"
  /\ told' = [told EXCEPT ![t] = isInitialized]
  /\ tpc' = [tpc EXCEPT ![t] = "write"]
  /\ UNCHANGED <<notLibVars, callCount, build, isInitialized, mpiIsInitialized,
                 backendLog, initResult, deinitializer, exited>>

\* std::exchange: true is assigned; if (!old) chooses the body or the return
ExchangeWrite(t) ==
  /\ tpc[t] = "write"
  /\ isInitialized' = TRUE
  /\ tpc' = [tpc EXCEPT ![t] = IF told[t] THEN "done" ELSE "body"]
  /\ UNCHANGED <<notLibVars, callCount, build, mpiIsInitialized, backendLog,
                 initResult, deinitializer, exited, told>>

\* the body of the if: the MPI test, cpu::init, gpu::init
InitBody(t) ==
  /\ tpc[t] = "body"
  /\ \E cpuOk \in BOOLEAN, gpuOk \in BOOLEAN :
       LET b == initBackends(build, mpiIsInitialized, cpuOk, gpuOk)
       IN  /\ backendLog' = backendLog \o b.events
           /\ initResult' = [api |-> "init", status |-> b.exc.status,
                             what |-> b.exc.what]
           /\ tpc' = [tpc EXCEPT ![t] = IF b.exc.status = "ok" THEN "done"
                                                               ELSE "failed"]
  /\ UNCHANGED <<notLibVars, callCount, build, isInitialized, mpiIsInitialized,
                 deinitializer, exited, told>>

NextInitThreads ==
  \/ \E t \in Threads : EnterInit(t)
  \/ \E t \in Threads : ExchangeRead(t)
  \/ \E t \in Threads : ExchangeWrite(t)
  \/ \E t \in Threads : InitBody(t)
  \/ ProcessExit

SpecInitThreads == InitLibrary /\ [][NextInitThreads]_vars

(***************************************************************************)
(* Target configuration: one TargetConfig::make call on one machine        *)
(***************************************************************************)
\* alignments handed in, powers of two and others
AlignmentInputs == {0, 1, 3, 16, 64}

InitTarget ==
  /\ params = BaseParams
  /\ pc = "target"
  /\ axesRes = NotCalled
  /\ tc = Failed(NotCalled)
  /\ dc = NoDims
  /\ norm = NormNotCalled
  /\ plan = NoPlan
  /\ call = NoCall
  /\ result = NotCalled
  /\ invoked = <<>>
  /\ passed = <<>>
  /\ \E a \in AlignmentInputs, n \in 0 .. MaxThreads :
       targetParams = [target |-> "cpu", alignment |-> a, threadLimit |-> n]
  /\ hardwareConcurrency \in 0 .. MaxThreads
  /\ targetCfg = NoTarget
  /\ returned = NoReturn
  /\ callCount = 0
  /\ LibraryNotUsed

\* TargetConfig::make(const afft::cpu::Parameters&)
MakeCpuTarget ==
  /\ targetCfg = NoTarget
  /\ targetParams.target = "cpu"
  /\ targetCfg' = makeCpuTarget(targetParams, hardwareConcurrency)
  /\ UNCHANGED <<descVars, plan, call, result, invoked, passed, targetParams,
                 hardwareConcurrency, returned, callCount, libVars>>

NextTarget == MakeCpuTarget

SpecTarget == InitTarget /\ [][NextTarget]_vars

(***************************************************************************)
(* Properties of the descriptor construction                               *)
(***************************************************************************)
AxesChecked == pc # "start"

TransformMade == pc \in {"made", "dims", "corrected", "done"}

DimensionsMade == pc \in {"dims", "corrected", "done"}

Corrected == pc \in {"corrected", "done"}

\* direction and precision triad are valid
HeaderValid ==
  /\ params.direction \in Directions
  /\ params.precision.execution \in SupportedPrecisions
  /\ params.precision.source \in SupportedPrecisions
  /\ params.precision.destination \in SupportedPrecisions

\* the axes the contract of the validator accepts
AxesContract(axes, shapeRank) ==
  /\ Len(axes) > 0
  /\ Len(axes) <= shapeRank
  /\ Len(axes) <= maxDimCount
  /\ \A i \in 1 .. Len(axes) : axes[i] < shapeRank
  /\ Injective(axes)

\* C1: checkAxes succeeds exactly when the axes list is non-empty, no longer
\* than the shape rank and than maxDimCount, every axis is below the shape
\* rank and no axis repeats; otherwise it fails with an invalid-argument error.
C1_AxesValidation ==
  AxesChecked =>
    IF AxesContract(params.axes, Len(params.shape))
    THEN axesRes.status = "ok"
    ELSE axesRes.status = "invalid_argument"

\* C2: a DFT with valid direction and precision, axes that pass the axes
\* check and a real source is made exactly when the destination format is
\* complexInterleaved or complexPlanar; otherwise make fails with an
\* invalid-argument error and produces no config.
C2_RealSourceNeedsComplexDestination ==
  (TransformMade /\ params.kind = "dft" /\ HeaderValid /\ axesRes.status = "ok"
     /\ params.srcFormat = "real") =>
    /\ tc.status = "ok" <=>
         params.dstFormat \in {"complexInterleaved", "complexPlanar"}
    /\ tc.status = "ok" =>
         /\ tc.config.mVariant.srcFormat = "real"
         /\ tc.config.mVariant.dstFormat = params.dstFormat
    /\ tc.status # "ok" =>
         tc.status = "invalid_argument" /\ tc.config = NoConfig

C2_Witness ==
  /\ pc = "made" /\ params.kind = "dft" /\ HeaderValid
  /\ params.srcFormat = "real" /\ params.dstFormat = "complexPlanar"
  /\ tc.status = "ok"

\* C3: a DFT with valid direction, precision and axes whose source format is
\* not real is made for every destination format.
C3_NonRealSourceAnyDestination ==
  (TransformMade /\ params.kind = "dft" /\ HeaderValid /\ axesRes.status = "ok"
     /\ params.srcFormat \in Formats \ {"real"}
     /\ params.dstFormat \in Formats) =>
    tc.status = "ok"

\* C4: a DTT with valid direction and precision and axes that pass the axes
\* check is made exactly when the type list has length 1 or the length of
\* the axes list and every type is one of the eight kinds; made from a single
\* type, every transform axis carries that type.
C4_DttTypes ==
  (TransformMade /\ params.kind = "dtt" /\ HeaderValid /\ axesRes.status = "ok") =>
    /\ tc.status = "ok" <=>
         /\ Len(params.types) = 1 \/ Len(params.types) = Len(params.axes)
         /\ \A i \in 1 .. Len(params.types) : params.types[i] \in DttTypes
    /\ tc.status # "ok" =>
         tc.status = "invalid_argument" /\ tc.config = NoConfig
    /\ (tc.status = "ok" /\ Len(params.types) = 1) =>
         \A i \in 0 .. (Len(params.axes) - 1) :
           tc.config.mVariant.axisTypes[i] = params.types[1]

C4_Witness ==
  /\ pc = "made" /\ params.kind = "dtt" /\ tc.status = "ok"
  /\ Len(params.types) = 1 /\ Len(params.axes) = 2
  /\ params.types[1] = "dst3"

\* the size n of the contract: one contribution per transform axis
RECURSIVE ContractN(_, _)
ContractN(p, i) ==
  IF i > Len(p.axes)
  THEN 1
  ELSE LET extent == p.shape[p.axes[i] + 1]
           type   == IF Len(p.types) = 1 THEN p.types[1] ELSE p.types[i]
           c      == IF p.kind = "dft" THEN extent
                     ELSE IF type = "dct1" THEN 2 * (extent - 1)
                     ELSE IF type = "dst1" THEN 2 * (extent + 1)
                     ELSE 2 * extent
       IN  c * ContractN(p, i + 1)

\* C5: for a valid config and shape getNormFactor returns a factor derived
\* from n, the product of one contribution per transform axis (DFT and DTT
\* rules exclusive), and the factor is 1 when the normalization is none.
C5_NormFactorReturns ==
  pc = "done" =>
    /\ norm.status = "ok"
    /\ norm.n = ContractN(params, 1)
    /\ params.normalize = "none" => norm.factor.kind = "one"

\* strides are row-major over the shape: the last one is 1, every other one
\* is the next stride times the next extent
RowMajor(strides, shape) ==
  LET rank == Len(shape)
  IN  /\ strides[rank - 1] = 1
      /\ \A axis \in 0 .. (rank - 2) :
           strides[axis] = strides[axis + 1] * shape[axis + 2]

PlainSide(format) ==
  \/ params.kind = "dtt"
  \/ params.kind = "dft" /\ format \in {"complexInterleaved", "complexPlanar"}

\* C6: strides omitted on a side of a DTT, or of a DFT whose format on that
\* side is plain complex, are filled in row-major.
C6_DefaultStridesRowMajor ==
  Corrected =>
    /\ (params.srcStride = <<>> /\ PlainSide(params.srcFormat)) =>
         RowMajor(dc.config.mSrcStrides, params.shape)
    /\ (params.dstStride = <<>> /\ PlainSide(params.dstFormat)) =>
         RowMajor(dc.config.mDstStrides, params.shape)

C6_Witness ==
  /\ pc = "corrected" /\ params.kind = "dft"
  /\ params.srcFormat = "complexInterleaved" /\ params.srcStride = <<>>
  /\ params.shape = <<2, 3, 2>>
  /\ dc.config.mSrcStrides[0] = 6 /\ dc.config.mSrcStrides[1] = 2

RealToComplexExample ==
  /\ params.kind = "dft" /\ params.srcFormat = "real"
  /\ params.shape = <<4, 6>> /\ params.axes = <<1>>

\* C7: the 2D real-to-complex DFT of shape (4,6) on the last axis, in place,
\* strides omitted: the row stride of the real side is 2*(6/2+1) = 8.
C7_InPlaceRealRowStride ==
  (Corrected /\ RealToComplexExample /\ params.placement = "inPlace"
     /\ params.srcStride = <<>>) =>
    dc.config.mSrcStrides[0] = 8

\* strides over the shape with the extent of the reduced axis packed to
\* extent/2 + 1
PackedRowMajor(strides, shape, redAxis) ==
  LET rank == Len(shape)
      ext(axis) == IF axis = redAxis THEN (shape[axis + 1] \div 2) + 1
                                     ELSE shape[axis + 1]
  IN  /\ strides[rank - 1] = 1
      /\ \A axis \in 0 .. (rank - 2) :
           strides[axis] = strides[axis + 1] * ext(axis + 1)

Hermitian(format) ==
  format \in {"hermitianComplexInterleaved", "hermitianComplexPlanar"}

\* C8: the same transform out of place has destination row stride 6/2+1 = 4,
\* and a side whose format is hermitian-complex uses extent/2+1 for the
\* reduced axis (the last transform axis).
C8_HermitianPackedStride ==
  Corrected =>
    /\ (RealToComplexExample /\ params.placement = "outOfPlace"
          /\ params.dstStride = <<>>) =>
         dc.config.mDstStrides[0] = 4
    /\ (params.kind = "dft" /\ Hermitian(params.dstFormat)
          /\ params.dstStride = <<>>) =>
         PackedRowMajor(dc.config.mDstStrides, params.shape,
                        params.axes[Len(params.axes)])

Positive(list) == \A i \in 1 .. Len(list) : list[i] > 0

StrideListContract(list, rank) ==
  list = <<>> \/ (Len(list) = rank /\ Positive(list))

\* C9: a DimensionsConfig is constructed exactly when the rank is at most
\* maxDimCount, every extent is positive and each stride list is empty or of
\* the rank's length with positive values; otherwise no descriptor is
\* produced; nothing is written behind the fixed-size arrays; an empty
\* stride list leaves its side not set.
C9_DimensionsConstruction ==
  DimensionsMade =>
    /\ dc.status = "ok" <=>
         /\ Len(params.shape) <= maxDimCount
         /\ Positive(params.shape)
         /\ StrideListContract(params.srcStride, Len(params.shape))
         /\ StrideListContract(params.dstStride, Len(params.shape))
    /\ dc.status # "ok" => dc.status = "runtime_error" /\ dc.config = NoConfig
    /\ ~dc.oob
    /\ (pc = "dims" /\ dc.status = "ok") =>
         /\ hasSrcStride(dc.config) <=> params.srcStride # <<>>
         /\ hasDstStride(dc.config) <=> params.dstStride # <<>>
         /\ dc.config.mRank = Len(params.shape)
         /\ \A i \in 1 .. Len(params.shape) :
              dc.config.mShape[i - 1] = params.shape[i]

C9_Witness ==
  /\ pc = "dims" /\ dc.status = "ok"
  /\ Len(params.shape) = maxDimCount
  /\ params.srcStride = <<>> /\ params.dstStride # <<>>
  /\ ~hasSrcStride(dc.config) /\ hasDstStride(dc.config)

(***************************************************************************)
(* Properties of execute / executeUnsafe                                   *)
(***************************************************************************)
Called == call.api # "none"

CountMismatch ==
  Len(call.src) # plan.targetCount \/ Len(call.dst) # plan.targetCount

BufferCountError ==
  /\ result.status = "invalid_argument"
  /\ result.what \in {"invalid source buffer count",
                      "invalid destination buffer count"}

PreservationError ==
  /\ result.status = "invalid_argument"
  /\ result.what = "running destructive transform on const source data"

SourceMustBePreserved == call.constSrc /\ ~plan.preserveSource

\* C10 as stated: a call whose source or destination buffer count differs
\* from targetCount fails with a buffer-count error and invokes no backend
\* entry point.
C10_CountMismatchIsCountError ==
  (Called /\ CountMismatch) => (BufferCountError /\ invoked = <<>>)

\* C10 amended: a call whose source or destination buffer count differs from
\* targetCount fails and invokes no backend entry point; the error is the
\* buffer-count error unless the source is read-only and the plan does not
\* preserve its source, in which case the preservation check, which runs
\* first, has already failed with its own error.
C10_CountMismatchFails ==
  (Called /\ CountMismatch) =>
    /\ invoked = <<>>
    /\ IF SourceMustBePreserved THEN PreservationError ELSE BufferCountError

C10_Witness ==
  /\ Called /\ plan.targetCount = 2
  /\ Len(call.src) = 2 /\ Len(call.dst) = 1
  /\ \A i \in 1 .. Len(call.src) : call.src[i] # "null"
  /\ \A i \in 1 .. Len(call.dst) : call.dst[i] # "null"
  /\ result.what = "invalid destination buffer count"
  /\ invoked = <<>>

PlacementError ==
  /\ result.status = "invalid_argument"
  /\ result.what = "placement does not match plan placement"

\* source and destination are views of the same kind of buffer
SameKind == call.srcPlanar = call.dstPlanar

\* every source / destination pair of the call is the same buffer
Identical ==
  /\ Len(call.src) = Len(call.dst)
  /\ \A i \in 1 .. Len(call.src) :
       /\ call.src[i] = call.dst[i]
       /\ (call.srcPlanar /\ call.dstPlanar) => call.srcImag[i] = call.dstImag[i]

PlacementOfCall == IF Identical THEN "inPlace" ELSE "outOfPlace"

\* C11 as stated: a call fails with the placement-mismatch error if and only
\* if the placement of its buffers (in-place iff every pair is identical)
\* differs from the plan's placement.
C11_PlacementMismatchIffError ==
  (Called /\ SameKind) => (PlacementError <=> PlacementOfCall # plan.placement)

\* C11 amended: for a call that passes the preservation and the buffer-count
\* check, the placement-mismatch error is raised if and only if the placement
\* of its buffers (in-place iff every pair is identical, for planar pairs in
\* both the real and the imag pointer) differs from the plan's placement; the
\* error is never raised when the two agree; and execute(srcDst) fails on
\* every out-of-place plan.
C11_PlacementInference ==
  /\ (Called /\ SameKind /\ ~SourceMustBePreserved /\ ~CountMismatch) =>
       (PlacementError <=> PlacementOfCall # plan.placement)
  /\ (Called /\ SameKind /\ PlacementError) => PlacementOfCall # plan.placement
  /\ (Called /\ call.single /\ plan.placement = "outOfPlace") =>
       result.status \notin {"ok", "not_called"}

C11_Witness ==
  /\ Called /\ plan.placement = "inPlace" /\ plan.targetCount = 2
  /\ call.srcPlanar /\ call.dstPlanar
  /\ call.src = call.dst /\ call.srcImag # call.dstImag
  /\ PlacementError /\ invoked = <<>>

HasNull ==
  \/ \E i \in 1 .. Len(call.src) : call.src[i] = "null"
  \/ \E i \in 1 .. Len(call.dst) : call.dst[i] = "null"

NullError ==
  /\ result.status = "invalid_argument"
  /\ result.what \in {"a null pointer was passed as source buffer",
                      "a null pointer was passed as destination buffer"}

\* the element types of a typed call are the ones the plan accepts: the
\* declared source and destination type out of place, either declared
\* precision and either declared complexity for the source in place
TypesAccepted ==
  IF plan.placement = "inPlace"
  THEN /\ call.srcType[1] \in {plan.precision.source, plan.precision.destination}
       /\ call.srcType[2] \in {plan.srcComplexity, plan.dstComplexity}
  ELSE /\ call.srcType = <<plan.precision.source, plan.srcComplexity>>
       /\ call.dstType = <<plan.precision.destination, plan.dstComplexity>>

\* the call passes the preservation, buffer-count, placement and type checks
PassesEarlierChecks ==
  /\ ~SourceMustBePreserved
  /\ ~CountMismatch
  /\ PlacementOfCall = plan.placement
  /\ call.typed => TypesAccepted

\* C12: a call with a null source or destination pointer that passes the
\* earlier checks fails with the null-buffer error; no call with a null
\* pointer invokes a backend entry point, so every call that reaches the
\* dispatch has only non-null pointers.
C12_NullBuffersRejected ==
  /\ (Called /\ HasNull /\ ~call.srcPlanar /\ ~call.dstPlanar
        /\ PassesEarlierChecks) => NullError
  /\ (Called /\ HasNull) => (invoked = <<>> /\ result.status # "ok")
  /\ invoked # <<>> => ~HasNull

C12_Witness ==
  /\ Called /\ PassesEarlierChecks
  /\ plan.targetCount = 2
  /\ call.src = <<"a", "b">> /\ call.dst = <<"b", "null">>
  /\ result.what = "a null pointer was passed as destination buffer"
  /\ invoked = <<>>

\* the outcome of the same call on the plan with the preserveSource flag
\* flipped
OutcomeWithFlagFlipped ==
  executeImpl1([plan EXCEPT !.preserveSource = ~@], call)

\* C13: a call with a read-only source on a plan whose preserveSource flag
\* is not set fails with the preservation error and reaches no backend; the
\* preservation error is raised in no other case, and with a non-const
\* source the outcome does not depend on the flag.
C13_ConstSourceNeedsPreserve ==
  /\ (Called /\ call.constSrc /\ ~plan.preserveSource) =>
       (PreservationError /\ invoked = <<>>)
  /\ (Called /\ PreservationError) => (call.constSrc /\ ~plan.preserveSource)
  /\ (Called /\ ~call.constSrc) =>
       /\ result = [status |-> OutcomeWithFlagFlipped.status,
                    what   |-> OutcomeWithFlagFlipped.what]
       /\ invoked = OutcomeWithFlagFlipped.invoked

C13_Witness ==
  /\ Called /\ call.api = "executeUnsafe"
  /\ call.constSrc /\ ~plan.preserveSource
  /\ ~CountMismatch /\ ~HasNull /\ PlacementOfCall = plan.placement
  /\ PreservationError /\ invoked = <<>>

TypeError ==
  /\ result.status = "invalid_argument"
  /\ result.what \in {"invalid type precision", "invalid type complexity",
                      "invalid source type precision",
                      "invalid destination type precision",
                      "invalid source type complexity",
                      "invalid destination type complexity"}

\* the buffers' element types are the declared source and destination types
DeclaredTypesMatch ==
  /\ call.srcType[1] = plan.precision.source
  /\ call.srcType[2] = plan.srcComplexity
  /\ call.dstType[1] = plan.precision.destination
  /\ call.dstType[2] = plan.dstComplexity

\* the checks other than the type check, each reported when the ones before
\* it pass
UntypedChecksRun ==
  IF SourceMustBePreserved THEN PreservationError
  ELSE IF CountMismatch THEN BufferCountError
  ELSE IF PlacementOfCall # plan.placement THEN PlacementError
  ELSE IF HasNull THEN NullError
  ELSE ~PreservationError /\ ~BufferCountError /\ ~PlacementError /\ ~NullError

\* source and destination are views of pointers
PointerViews == ~call.srcPlanar /\ ~call.dstPlanar

\* C14: a typed execute with pointer views on an out-of-place plan that
\* passes the preservation, buffer-count and placement checks fails the type
\* check if and only if the source or the destination element type differs
\* from the declared one in precision or complexity; an executeUnsafe call
\* never fails the type check and runs every other check.
C14_OutOfPlaceTypeCheck ==
  /\ (Called /\ call.typed /\ PointerViews /\ plan.placement = "outOfPlace"
        /\ ~SourceMustBePreserved /\ ~CountMismatch
        /\ PlacementOfCall = plan.placement) =>
       (TypeError <=> ~DeclaredTypesMatch)
  /\ (Called /\ ~call.typed) => ~TypeError
  /\ (Called /\ ~call.typed /\ SameKind) => UntypedChecksRun

C14_Witness ==
  /\ Called /\ call.typed /\ PointerViews /\ plan.placement = "outOfPlace"
  /\ call.srcType = <<plan.precision.source, plan.srcComplexity>>
  /\ call.dstType[1] = plan.precision.destination
  /\ call.dstType[2] # plan.dstComplexity
  /\ result.what = "invalid destination type complexity"
  /\ invoked = <<>>

ExecParamsMatchPlan ==
  /\ call.execParams.target = plan.target
  /\ call.execParams.distribution = plan.distribution

ExecParamsError ==
  /\ result.status = "invalid_argument"
  /\ result.what \in
       {"execution parameters target does not match plan target",
        "execution parameters distribution does not match plan distribution"}

Dispatched == invoked # <<>>

\* C15: a call with explicit execution parameters whose target or
\* distribution differs from the plan's fails and reaches no backend, with
\* the execution-parameter error when every earlier check passes; a call
\* that reaches the backend hands it the caller's parameters unchanged, or,
\* when the caller gave none, value-initialised parameters of the type of
\* the plan's own target and distribution.
C15_ExecParamsReconciled ==
  /\ (Called /\ call.execParams.given /\ ~ExecParamsMatchPlan) =>
       (~Dispatched /\ result.status # "ok")
  /\ (Called /\ call.execParams.given /\ ~ExecParamsMatchPlan
        /\ PointerViews /\ PassesEarlierChecks /\ ~HasNull) => ExecParamsError
  /\ (Called /\ ExecParamsError) => (call.execParams.given /\ ~ExecParamsMatchPlan)
  /\ (Called /\ PointerViews /\ PassesEarlierChecks /\ ~HasNull
        /\ (call.execParams.given => ExecParamsMatchPlan)) => Dispatched
  /\ (Dispatched /\ call.execParams.given) => passed = <<call.execParams>>
  /\ (Dispatched /\ ~call.execParams.given) =>
       passed = <<ExecutionParameters(plan.target, plan.distribution, "default")>>

C15_Witness ==
  /\ Called /\ plan.target = "gpu" /\ plan.distribution = "spmt"
  /\ call.execParams = ExecutionParameters("gpu", "spmt", "custom")
  /\ Dispatched /\ passed = <<call.execParams>>

\* the call passes every check: the earlier ones, the null check and the
\* reconciliation of the execution parameters
PassesAllChecks ==
  /\ PassesEarlierChecks
  /\ ~HasNull
  /\ call.execParams.given => ExecParamsMatchPlan

\* C16: a call that passes every check invokes exactly one backend entry
\* point, the one of the plan's (target, distribution), which is one of the
\* five; no call invokes more than one or another one.
C16_ExactlyOneEntryPoint ==
  /\ (Called /\ PointerViews /\ PassesAllChecks) =>
       /\ Len(invoked) = 1
       /\ invoked[1] = <<plan.distribution, plan.target>>
       /\ invoked[1] \in {<<"spst", "cpu">>, <<"mpst", "cpu">>, <<"spst", "gpu">>,
                          <<"spmt", "gpu">>, <<"mpst", "gpu">>}
  /\ Len(invoked) <= 1
  /\ Dispatched => invoked = <<<<plan.distribution, plan.target>>>>

C16_Witness ==
  /\ Called /\ PointerViews /\ PassesAllChecks
  /\ ~call.execParams.given
  /\ plan.target = "gpu" /\ plan.distribution = "spmt"
  /\ invoked = <<<<"spmt", "gpu">>>>
  /\ result.status = "ok"

\* the backend of the plan overrides the entry point of the plan's own
\* (target, distribution)
OwnEntryImplemented == <<plan.distribution, plan.target>> \in plan.implemented

NotImplementedError ==
  /\ result.status = "logic_error"
  /\ result.what = "backend does not implement " \o plan.distribution \o " "
                     \o plan.target \o " execution"

\* C17: a call that passes every check on a plan whose backend does not
\* implement the plan's entry point fails with the "backend does not
\* implement ... execution" error; the error is raised by calls only, and
\* only by calls that pass every check.
C17_NotImplementedAtExecution ==
  /\ (Called /\ PointerViews /\ PassesAllChecks /\ ~OwnEntryImplemented) =>
       NotImplementedError
  /\ (Called /\ PointerViews /\ result.status = "logic_error") =>
       (NotImplementedError /\ PassesAllChecks /\ ~OwnEntryImplemented)
  /\ ~Called => result = NotCalled

C17_Witness ==
  /\ Called /\ PointerViews /\ PassesAllChecks
  /\ plan.implemented = {}
  /\ plan.target = "cpu" /\ plan.distribution = "mpst"
  /\ result = [status |-> "logic_error",
               what   |-> "backend does not implement mpst cpu execution"]

ValidationError ==
  \/ PreservationError
  \/ BufferCountError
  \/ PlacementError
  \/ TypeError
  \/ NullError
  \/ ExecParamsError

\* C18: a call that fails the preservation, buffer-count, placement, type,
\* null-pointer or execution-parameter check invokes no backend entry point
\* and hands no parameters to one; a call that does not pass every check
\* fails one of them.
C18_NoDispatchBeforeValidation ==
  /\ (Called /\ ValidationError) => (invoked = <<>> /\ passed = <<>>)
  /\ (Called /\ PointerViews /\ ~PassesAllChecks) =>
       (ValidationError /\ invoked = <<>>)
  /\ Dispatched => ~ValidationError

C18_Witness ==
  /\ Called /\ PointerViews /\ call.typed
  /\ ~SourceMustBePreserved /\ ~CountMismatch /\ ~HasNull
  /\ PlacementOfCall = plan.placement
  /\ call.execParams.given /\ ExecParamsMatchPlan
  /\ OwnEntryImplemented
  /\ TypeError
  /\ invoked = <<>> /\ passed = <<>>

\* the step of the call that is violated first, in the order preservation,
\* buffer count, placement, type, null pointer, execution parameters
FirstViolatedStep ==
  IF SourceMustBePreserved THEN "preservation"
  ELSE IF CountMismatch THEN "bufferCount"
  ELSE IF PlacementOfCall # plan.placement THEN "placement"
  ELSE IF call.typed /\ ~TypesAccepted THEN "type"
  ELSE IF HasNull THEN "null"
  ELSE IF call.execParams.given /\ ~ExecParamsMatchPlan THEN "execParams"
  ELSE "none"

\* the step whose error the call reported
ReportedStep ==
  IF PreservationError THEN "preservation"
  ELSE IF BufferCountError THEN "bufferCount"
  ELSE IF PlacementError THEN "placement"
  ELSE IF TypeError THEN "type"
  ELSE IF NullError THEN "null"
  ELSE IF ExecParamsError THEN "execParams"
  ELSE "none"

\* the steps the call violates, among the ones that do not depend on an
\* earlier step
ViolatedSteps ==
  {st \in {"preservation", "bufferCount", "null", "execParams"} :
     CASE st = "preservation" -> SourceMustBePreserved
       [] st = "bufferCount"  -> CountMismatch
       [] st = "null"         -> HasNull
       [] st = "execParams"   -> call.execParams.given /\ ~ExecParamsMatchPlan}

\* C22: a call with pointer views reports the error of the first step it
\* violates in the order preservation, buffer count, placement, type, null
\* pointer, execution parameters, and reaches the dispatch only when it
\* violates none; inside a step the source is checked before the
\* destination and the target before the distribution.
C22_ChecksInOrder ==
  (Called /\ PointerViews) =>
    /\ ReportedStep = FirstViolatedStep
    /\ Dispatched <=> FirstViolatedStep = "none"
    /\ (FirstViolatedStep = "bufferCount" /\ Len(call.src) # plan.targetCount) =>
         result.what = "invalid source buffer count"
    /\ (FirstViolatedStep = "null"
          /\ \E i \in 1 .. Len(call.src) : call.src[i] = "null") =>
         result.what = "a null pointer was passed as source buffer"
    /\ (FirstViolatedStep = "execParams"
          /\ call.execParams.target # plan.target) =>
         result.what = "execution parameters target does not match plan target"

C22_Witness ==
  /\ Called /\ PointerViews /\ call.typed
  /\ ~call.constSrc
  /\ plan.targetCount = 1
  /\ call.src = <<"a", "null">> /\ call.dst = <<"null">>
  /\ ~TypesAccepted
  /\ ViolatedSteps = {"bufferCount", "null"}
  /\ result.what = "invalid source buffer count"
  /\ invoked = <<>>

\* the declared (precision, complexity) pair of the source side and of the
\* destination side
DeclaredPairs ==
  {<<plan.precision.source, plan.srcComplexity>>,
   <<plan.precision.destination, plan.dstComplexity>>}

\* C27: a typed execute on an in-place plan that passes the preservation,
\* buffer-count and placement checks passes the type check only if the
\* (precision, complexity) pair of the source buffer is the declared source
\* pair or the declared destination pair, and the pair of the destination
\* buffer likewise; a pair that takes its precision from one side and its
\* complexity from the other is rejected.
C27_InPlaceTypePairs ==
  (Called /\ call.typed /\ PointerViews /\ plan.placement = "inPlace"
     /\ ~SourceMustBePreserved /\ ~CountMismatch
     /\ PlacementOfCall = plan.placement) =>
    (~TypeError =>
       (call.srcType \in DeclaredPairs /\ call.dstType \in DeclaredPairs))

(***************************************************************************)
(* Properties of descriptor equality                                       *)
(***************************************************************************)
\* the descriptors of a second construction from the same parameter set
SecondTransform == IF params.kind = "dft" THEN makeDft(params) ELSE makeDtt(params)

SecondDimensions ==
  NewDimensionsConfig([shape     |-> params.shape,
                       srcStride |-> params.srcStride,
                       dstStride |-> params.dstStride])

SecondCorrected ==
  correctDimensionsConfig(SecondTransform.config, SecondDimensions.config,
                          params.placement)

\* the descriptor of shape (4, 6) without strides, to compare against
ReferenceDimensions ==
  NewDimensionsConfig([shape |-> <<4, 6>>, srcStride |-> <<>>,
                       dstStride |-> <<>>]).config

\* the first rank elements of a fixed-size array, as the getters return them
SpanOf(array, rank) == [i \in 1 .. rank |-> array[i - 1]]

\* rank, shape and both stride sequences agree element by element
SameDimensions(a, b) ==
  /\ a.mRank = b.mRank
  /\ SpanOf(a.mShape, a.mRank) = SpanOf(b.mShape, b.mRank)
  /\ SpanOf(a.mSrcStrides, a.mRank) = SpanOf(b.mSrcStrides, b.mRank)
  /\ SpanOf(a.mDstStrides, a.mRank) = SpanOf(b.mDstStrides, b.mRank)

OtherDirection(dir) == IF dir = "forward" THEN "inverse" ELSE "forward"

OtherPrecision(prec) == IF prec = "f32" THEN "f64" ELSE "f32"

HeaderVariants ==
  LET make(p) == IF p.kind = "dft" THEN makeDft(p) ELSE makeDtt(p)
      t == params.precision
  IN  {make([params EXCEPT !.direction = d, !.precision = q]).config :
         d \in {params.direction, OtherDirection(params.direction)},
         q \in {t,
                [t EXCEPT !.execution = OtherPrecision(@)],
                [t EXCEPT !.source = OtherPrecision(@)],
                [t EXCEPT !.destination = OtherPrecision(@)]}}

\* C28: two transform configs compare equal with operator== only if they
\* agree on direction, precision triad, transform rank, axes and transform
\* variant.
C28_EqualityComparesEveryField ==
  (TransformMade /\ tc.status = "ok") =>
    \A other \in HeaderVariants :
      transformEqual(tc.config, other) =>
        /\ tc.config.mDirection = other.mDirection
        /\ tc.config.mPrec = other.mPrec
        /\ tc.config.mRank = other.mRank
        /\ SpanOf(tc.config.mAxes, tc.config.mRank)
             = SpanOf(other.mAxes, other.mRank)
        /\ tc.config.mVariant = other.mVariant

(***************************************************************************)
(* Properties of the target configuration                                  *)
(***************************************************************************)
TargetMade == targetCfg.status # "not_called"

\* C20: TargetConfig::make for cpu parameters succeeds for every alignment,
\* stores the alignment unchanged and the smaller of the requested thread
\* limit and the hardware concurrency, and the configuration reports the
\* target cpu.
C20_CpuTargetConfig ==
  (TargetMade /\ targetParams.target = "cpu") =>
    /\ targetCfg.status = "ok"
    /\ targetCfg.config.mVariant.alignment = targetParams.alignment
    /\ targetCfg.config.mVariant.threadLimit <= targetParams.threadLimit
    /\ targetCfg.config.mVariant.threadLimit <= hardwareConcurrency
    /\ targetCfg.config.mVariant.threadLimit
         \in {targetParams.threadLimit, hardwareConcurrency}
    /\ targetOf(targetCfg.config) = "cpu"

C20_Witness ==
  /\ TargetMade
  /\ targetParams.alignment = 3
  /\ targetParams.threadLimit = 4 /\ hardwareConcurrency = 2
  /\ targetCfg.config.mVariant = CpuConfig(3, 2)

(***************************************************************************)
(* Properties of sequences of calls on one plan                            *)
(***************************************************************************)
\* C21: no execute, executeUnsafe or accessor call, whether it returns or
\* throws, changes a field of the plan's descriptor, and an accessor returns
\* the value the descriptor holds.
C21_DescriptorFrozen ==
  [][/\ plan' = plan
     /\ returned'.accessor # "none" =>
          returned'.value = accessorValue(plan, returned'.accessor)]_vars

C21_Witness ==
  /\ callCount = MaxCalls
  /\ plan.targetCount = 2 /\ plan.placement = "inPlace"
  /\ returned = [accessor |-> "getTargetCount", value |-> 2]
  /\ call.src = <<"a", "b">> /\ call.dst = <<"a", "b">>
  /\ result.status = "ok" /\ invoked # <<>>

(***************************************************************************)
(* Properties of the stride generators                                     *)
(***************************************************************************)
\* the last axis of the transform's axes list
LastTransformAxis == params.axes[Len(params.axes)]

\* the extent the generators should use for an axis: overridden on the
\* reduced axis, the extent itself on every other axis
PackedExtent(size, axis, redAxis) ==
  IF axis = redAxis THEN (size \div 2) + 1 ELSE size

PaddedExtent(size, axis, redAxis, placement) ==
  IF placement = "inPlace" /\ axis = redAxis THEN 2 * ((size \div 2) + 1) ELSE size

\* C23: for a DFT of every transform rank, the hermitian-packed and the
\* in-place-real generator override the extent of the last axis of the
\* transform's axes list, axes[transformRank - 1], and of no other axis.
C23_ReducedAxisIsLastTransformAxis ==
  (DimensionsMade /\ tc.status = "ok" /\ dc.status = "ok" /\ params.kind = "dft") =>
    /\ redAxisOf(tc.config) = LastTransformAxis
    /\ \A axis \in 0 .. (dc.config.mRank - 1) :
         /\ dftHermitComplexStrideGenerator(dc.config.mShape,
                                            redAxisOf(tc.config), axis, 1)
              = PackedExtent(dc.config.mShape[axis], axis, LastTransformAxis)
         /\ dftRealStrideGenerator(dc.config.mShape, redAxisOf(tc.config),
                                   params.placement, axis, 1)
              = PaddedExtent(dc.config.mShape[axis], axis, LastTransformAxis,
                             params.placement)

(***************************************************************************)
(* Properties of correctDimensionsConfig                                   *)
(***************************************************************************)
\* the dimensions descriptor as the constructor left it, before the
\* correction
BeforeCorrection == SecondDimensions.config

\* the corrected descriptor of the same parameter set with the stride list
\* of one side taken away or, when it was omitted, supplied
OtherSideChanged(side) ==
  LET supplied(list) == IF list = <<>> THEN Const(Len(params.shape), 5) ELSE <<>>
      dims == [shape     |-> params.shape,
               srcStride |-> IF side = "src" THEN supplied(params.srcStride)
                                             ELSE params.srcStride,
               dstStride |-> IF side = "dst" THEN supplied(params.dstStride)
                                             ELSE params.dstStride]
  IN  correctDimensionsConfig(tc.config, NewDimensionsConfig(dims).config,
                              params.placement)

Backends == {"cpu", "gpu"}

\* the calls made on one backend, in order
EventsOf(backend) == SelectSeq(backendLog, LAMBDA e : e.backend = backend)

\* init, finalize, init, finalize, ... starting with init
Alternates(events) ==
  \A i \in 1 .. Len(events) :
    events[i].op = IF i % 2 = 1 THEN "init" ELSE "finalize"

\* C25: over any sequence of init and finalize calls on one thread, the
\* initialisation and the finalisation of each backend alternate strictly,
\* starting with the initialisation.
C25_InitFinalizeAlternate ==
  \A b \in Backends : Alternates(EventsOf(b))

\* the backend has been initialised successfully before position i of the
\* log and not been finalised since
UpBefore(backend, i) ==
  \E j \in 1 .. (i - 1) :
    /\ backendLog[j] = BackendEvent(backend, "init", TRUE)
    /\ \A k \in (j + 1) .. (i - 1) : backendLog[k].backend # backend

\* C26: an init call that fails leaves the library not initialized, and no
\* finalize call runs the finalisation of a backend that has not been
\* initialised.
C26_FailedInitNotInitialized ==
  /\ (initResult.api = "init" /\ initResult.status # "ok") => ~isInitialized
  /\ \A i \in 1 .. Len(backendLog) :
       backendLog[i].op = "finalize" => UpBefore(backendLog[i].backend, i)

(***************************************************************************)
(* Properties of the normalization size                                    *)
(***************************************************************************)
\* C29: for a transform config that was made and a shape with positive
\* extents, the size n getNormFactor has accumulated is at least 1, a dct1
\* axis of extent 1 included.
C29_NormSizePositive ==
  (pc = "done" /\ Positive(params.shape)) => norm.n >= 1

\* the number of calls of one operation made on one backend
CallsOf(backend, op) ==
  Cardinality({i \in 1 .. Len(backendLog) :
                 backendLog[i].backend = backend /\ backendLog[i].op = op})

\* C30: when two threads call init, under every interleaving of their reads
\* and writes of the initialization flag each backend is initialised at
\* most once and, at the end of the process, finalised at most once.
C30_InitRunsAtMostOnce ==
  \A b \in Backends : CallsOf(b, "init") <= 1 /\ CallsOf(b, "finalize") <= 1

====
